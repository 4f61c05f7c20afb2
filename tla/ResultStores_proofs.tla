-------------------------- MODULE ResultStores_proofs --------------------------
(* What the readers of a result store find, for every set of records, batches, *)
(* saves and stores opened: a record read back from a row is the record but    *)
(* for what its store cannot hold, no stop or error of a save loses a record   *)
(* whose save returned, and an event or a metric gets one row in a CSV file    *)
(* unless the store that writes it has stopped in an append.                   *)
EXTENDS ResultStores, FiniteSetTheorems, FunctionTheorems, WellFoundedInduction, TLAPS

-----------------------------------------------------------------------------
\* Rows.

Sorts == {"id", "time", "text", "optional", "money", "flag", "count", "seconds", "metadata"}

\* The kinds, by name.
LEMMA KindsAre == Kinds = {"event", "trade", "cycle", "task", "metric"}
  BY DEF Kinds, Order

\* Every kind has every sort of field.
LEMMA SortsAre == \A k \in Kinds : DOMAIN FieldsOf[k] = Sorts
  BY KindsAre DEF FieldsOf, StrategyEventRecord, TradeSummary, CycleSummary, TaskSummary,
                  ProfitMetric, Sorts

\* No field is of two sorts.
LEMMA SortsApart ==
  ASSUME NEW k \in Kinds, NEW s \in Sorts, NEW t \in Sorts, s # t
  PROVE  FieldsOf[k][s] \cap FieldsOf[k][t] = {}
  <1>1. CASE k = "event"
    BY <1>1 DEF FieldsOf, StrategyEventRecord, Prices, Sorts
  <1>2. CASE k = "trade"
    BY <1>2 DEF FieldsOf, TradeSummary, Prices, Sorts
  <1>3. CASE k = "cycle"
    BY <1>3 DEF FieldsOf, CycleSummary, Counts, Sorts
  <1>4. CASE k = "task"
    BY <1>4 DEF FieldsOf, TaskSummary, Counts, Sorts
  <1>5. CASE k = "metric"
    BY <1>5 DEF FieldsOf, ProfitMetric, Counts, Sorts
  <1> QED BY <1>1, <1>2, <1>3, <1>4, <1>5, KindsAre

\* A field is of one sort.
LEMMA SortIs ==
  ASSUME NEW k \in Kinds, NEW f \in Fields(k)
  PROVE  /\ SortOf(k, f) \in Sorts /\ f \in FieldsOf[k][SortOf(k, f)]
         /\ \A s \in Sorts : f \in FieldsOf[k][s] => s = SortOf(k, f)
  <1>1. DOMAIN FieldsOf[k] = Sorts
    BY SortsAre
  <1>2. \E s \in Sorts : f \in FieldsOf[k][s]
    BY <1>1 DEF Fields
  <1>3. SortOf(k, f) \in Sorts /\ f \in FieldsOf[k][SortOf(k, f)]
    BY <1>1, <1>2 DEF SortOf
  <1> QED BY <1>3, SortsApart

\* The two fields that have a rule of their own.
LEMMA NamedSorts ==
  ASSUME NEW k \in Kinds, NEW f \in Fields(k)
  PROVE  /\ f = "metadata" <=> SortOf(k, f) = "metadata"
         /\ f = "interval" <=> SortOf(k, f) = "seconds"
  <1>1. FieldsOf[k]["metadata"] = {"metadata"}
    BY KindsAre DEF FieldsOf, StrategyEventRecord, TradeSummary, CycleSummary, TaskSummary,
                    ProfitMetric
  <1>2. CASE k = "metric"
    <2>1. FieldsOf[k]["seconds"] = {"interval"}
      BY <1>2 DEF FieldsOf, ProfitMetric
    <2> QED BY <1>1, <2>1, SortIs DEF Sorts
  <1>3. CASE k # "metric"
    <2>1. FieldsOf[k]["seconds"] = {}
      BY <1>3, KindsAre DEF FieldsOf, StrategyEventRecord, TradeSummary, CycleSummary,
                            TaskSummary
    <2>2. \A s \in Sorts : "interval" \notin FieldsOf[k][s]
      <3>1. CASE k = "event"
        BY <3>1 DEF FieldsOf, StrategyEventRecord, Prices, Sorts
      <3>2. CASE k = "trade"
        BY <3>2 DEF FieldsOf, TradeSummary, Prices, Sorts
      <3>3. CASE k = "cycle"
        BY <3>3 DEF FieldsOf, CycleSummary, Counts, Sorts
      <3>4. CASE k = "task"
        BY <3>4 DEF FieldsOf, TaskSummary, Counts, Sorts
      <3> QED BY <1>3, <3>1, <3>2, <3>3, <3>4, KindsAre
    <2> QED BY <1>1, <2>1, <2>2, SortIs DEF Sorts
  <1> QED BY <1>2, <1>3

\* What a cell holds tells the cells apart.
LEMMA Cells ==
  /\ Null # Blank
  /\ \A v : /\ Held(v) # Null /\ Held(v) # Blank /\ Held(v)[1] = "held" /\ Held(v)[2] = v
            /\ <<"time", v>> # Null /\ <<"time", v>> # Blank
            /\ <<"flag", v>> # Null /\ <<"flag", v>> # Blank
            /\ <<"time", v>>[1] = "time" /\ <<"time", v>>[2] = v
            /\ <<"flag", v>>[1] = "flag" /\ <<"flag", v>>[2] = v
  /\ Null[1] = "null" /\ Blank[1] = "blank"
  <1>1. Null[1] = "null" /\ Blank[1] = "blank"
    BY DEF Null, Blank
  <1>2. \A v : /\ Held(v)[1] = "held" /\ Held(v)[2] = v
               /\ <<"time", v>>[1] = "time" /\ <<"time", v>>[2] = v
               /\ <<"flag", v>>[1] = "flag" /\ <<"flag", v>>[2] = v
    BY DEF Held
  <1>3. "null" # "blank" /\ "held" # "null" /\ "held" # "blank" /\ "time" # "null"
        /\ "time" # "blank" /\ "flag" # "null" /\ "flag" # "blank"
    OBVIOUS
  <1> HIDE DEF Null, Blank, Held
  <1> QED BY <1>1, <1>2, <1>3, Zenon

\* What a store keeps of a cell.
Stored(cell) == IF store = "csv" THEN CsvCell(cell) ELSE SqlCell(cell, store = "sql")

\* What comes back of a value by its sort.
Back(sort, v, w) ==
  CASE sort = "metadata" -> w = [plain |-> "plain", rich |-> "flat", wrapped |-> "inner"][v]
    [] sort = "seconds" -> w = v - (v % 2)
    [] sort = "time" /\ v # None /\ store = "sqlite" -> w.at = v.at
    [] OTHER -> w = v

\* What is read from the cell of a value.
LEMMA CellBack ==
  ASSUME NEW sort \in Sorts \ {"money"}, NEW v, IsValue(sort, v),
         store \in {"csv", "sqlite", "sql"}
  PROVE  Back(sort, v, ReadCell(sort, Stored(MapCell(sort, v))))
  <1>1. CASE sort = "text"
    BY <1>1, Cells DEF Back, ReadCell, MapCell, Stored, CsvCell, SqlCell
  <1>2. CASE sort = "optional"
    BY <1>2, Cells DEF Back, ReadCell, MapCell, Stored, CsvCell, SqlCell
  <1>3. CASE sort = "time"
    <2>1. CASE v = None
      BY <1>3, <2>1, Cells DEF Back, ReadCell, MapCell, Stored, CsvCell, SqlCell
    <2>2. CASE v # None
      <3>1. MapCell(sort, v) = <<"time", v>> /\ v = [at |-> v.at, zone |-> v.zone]
        BY <1>3, <2>2 DEF IsValue, MapCell
      <3>2. \A w : ReadCell(sort, <<"time", w>>) = w
        BY <1>3, Cells DEF ReadCell
      <3>3. CASE store = "csv" \/ store = "sql"
        <4>1. Stored(<<"time", v>>) = <<"time", v>>
          BY <3>3, Cells DEF Stored, CsvCell, SqlCell
        <4>2. ReadCell(sort, Stored(MapCell(sort, v))) = v
          BY <3>1, <3>2, <4>1
        <4> QED BY <1>3, <3>3, <4>2 DEF Back
      <3>4. CASE store = "sqlite"
        <4>1. PICK w : w = [v EXCEPT !.zone = FALSE]
          OBVIOUS
        <4>2. w.at = v.at
          BY <3>1, <4>1
        <4>3. Stored(<<"time", v>>) = <<"time", w>>
          BY <3>4, <4>1, Cells DEF Stored, SqlCell
        <4>4. ReadCell(sort, Stored(MapCell(sort, v))) = w
          BY <3>1, <3>2, <4>3
        <4> QED BY <1>3, <2>2, <3>4, <4>2, <4>4 DEF Back
      <3> QED BY <3>3, <3>4
    <2> QED BY <2>1, <2>2
  <1>4. CASE sort = "flag"
    <2>1. v \in BOOLEAN /\ MapCell(sort, v) = <<"flag", v>>
      BY <1>4 DEF IsValue, MapCell
    <2>2. /\ <<"flag", TRUE>> # <<"flag", FALSE>> /\ Held("true") # Held("false")
          /\ \A a, b : <<"flag", a>> # Held(b)
      BY Cells
    <2>3. \A c : ReadCell(sort, c) = (c \in {<<"flag", TRUE>>, Held("true")})
      BY <1>4 DEF ReadCell
    <2>4. Stored(<<"flag", v>>) \in {Held(IF v THEN "true" ELSE "false"), <<"flag", v>>}
      BY Cells DEF Stored, CsvCell, SqlCell
    <2>5. ReadCell(sort, Stored(<<"flag", v>>)) = v
      <3>1. CASE v = TRUE
        <4>1. Stored(<<"flag", v>>) \in {<<"flag", TRUE>>, Held("true")}
          BY <2>4, <3>1
        <4> QED BY <2>3, <3>1, <4>1
      <3>2. CASE v = FALSE
        <4>1. Stored(<<"flag", v>>) \notin {<<"flag", TRUE>>, Held("true")}
          BY <2>2, <2>4, <3>2
        <4> DEFINE S == {<<"flag", TRUE>>, Held("true")}
        <4>2. ReadCell(sort, Stored(<<"flag", v>>)) = (Stored(<<"flag", v>>) \in S)
          BY <2>3
        <4>3. Stored(<<"flag", v>>) \notin S
          BY <4>1
        <4> HIDE DEF S
        <4>4. (Stored(<<"flag", v>>) \in S) = FALSE
          <5>1. (Stored(<<"flag", v>>) \in S) \in BOOLEAN
            OBVIOUS
          <5> HIDE DEF S
          <5> QED BY <4>3, <5>1
        <4> QED BY <3>2, <4>2, <4>4, Zenon
      <3> QED BY <2>1, <3>1, <3>2
    <2> QED BY <1>4, <2>1, <2>5 DEF Back
  <1>5. CASE sort = "seconds"
    BY <1>5, Cells DEF IsValue, Back, ReadCell, MapCell, Stored, CsvCell, SqlCell
  <1>6. CASE sort = "metadata"
    BY <1>6, Cells DEF IsValue, Back, ReadCell, MapCell, Stored, CsvCell, SqlCell
  <1>7. CASE sort \in {"count", "id"}
    BY <1>7, Cells DEF Back, ReadCell, MapCell, Stored, CsvCell, SqlCell
  <1> QED BY <1>1, <1>2, <1>3, <1>4, <1>5, <1>6, <1>7 DEF Sorts

\* An amount of money comes back from its two columns.
LEMMA MoneyBack ==
  ASSUME NEW v, IsValue("money", v)
  PROVE  ReadMoney(Stored(MapMoney(v, "amount")), Stored(MapMoney(v, "currency"))) = v
  <1>1. CASE v = None
    <2>1. Stored(Null) \in {Null, Blank}
      BY Cells DEF Stored, CsvCell, SqlCell
    <2> QED BY <1>1, <2>1 DEF ReadMoney, MapMoney
  <1>2. CASE v # None
    <2>1. v = [amount |-> v.amount, currency |-> v.currency]
      BY <1>2 DEF IsValue
    <2>2. \A x : Stored(Held(x)) = Held(x)
      BY Cells DEF Stored, CsvCell, SqlCell
    <2>3. /\ MapMoney(v, "amount") = Held(v.amount) /\ MapMoney(v, "currency") = Held(v.currency)
      BY <1>2 DEF MapMoney
    <2>4. ReadMoney(Held(v.amount), Held(v.currency))
            = [amount |-> v.amount, currency |-> v.currency]
      BY Cells DEF ReadMoney
    <2> QED BY <2>1, <2>2, <2>3, <2>4
  <1> QED BY <1>1, <1>2

-----------------------------------------------------------------------------
\* Records: what a reader makes of an entry.

\* The same of a field of a record.
LEMMA EntryBack ==
  ASSUME NEW k \in Kinds, NEW r \in Record[k], NEW f \in Fields(k),
         store \in {"csv", "sqlite", "sql"}
  PROVE  Back(SortOf(k, f), r[f], Read(k, Entry(k, r))[f])
  <1> DEFINE row == Entry(k, r)
  <1>1. /\ row = [c \in Columns(k) |-> Stored(RowOf(k, r)[c])]
        /\ Read(k, row) = RecordOf(k, row)
    BY DEF Entry, Read, Stored
  <1> HIDE DEF row
  <1>2. IsValue(SortOf(k, f), r[f])
    BY StoresAssumption
  <1>3. /\ SortOf(k, f) \in Sorts /\ f \in FieldsOf[k][SortOf(k, f)]
        /\ \A s \in Sorts : f \in FieldsOf[k][s] => s = SortOf(k, f)
    BY SortIs
  <1>4. "money" \in Sorts /\ FieldsOf[k].money = FieldsOf[k]["money"]
    BY DEF Sorts
  <1>5. CASE SortOf(k, f) = "money"
    <2>1. f \in FieldsOf[k].money
      BY <1>3, <1>5
    <2>2. <<f, "amount">> \in Columns(k) /\ <<f, "currency">> \in Columns(k)
      BY <2>1 DEF Columns
    <2>3. /\ row[<<f, "amount">>] = Stored(MapMoney(r[f], "amount"))
          /\ row[<<f, "currency">>] = Stored(MapMoney(r[f], "currency"))
      BY <1>1, <2>2 DEF RowOf
    <2>4. Read(k, row)[f] = ReadMoney(row[<<f, "amount">>], row[<<f, "currency">>])
      BY <1>1, <2>1 DEF RecordOf
    <2>5. Read(k, row)[f] = r[f]
      BY <1>2, <1>5, <2>3, <2>4, MoneyBack
    <2> QED BY <1>5, <2>5 DEF Back, row
  <1>6. CASE SortOf(k, f) # "money"
    <2>1. f \notin FieldsOf[k].money
      BY <1>3, <1>4, <1>6
    <2>2. <<f, "">> \in Columns(k)
      BY <2>1 DEF Columns
    <2>3. row[<<f, "">>] = Stored(MapCell(SortOf(k, f), r[f]))
      BY <1>1, <2>2 DEF RowOf
    <2>4. Read(k, row)[f] = ReadCell(SortOf(k, f), row[<<f, "">>])
      BY <1>1, <2>1 DEF RecordOf
    <2> QED BY <1>2, <1>3, <1>6, <2>3, <2>4, CellBack DEF row
  <1> QED BY <1>5, <1>6

\* What a reader makes of the row of a record (ResultRowReader after
\* ResultRowMapper) is the record, but for what the store cannot hold.
THEOREM RowReadBack ==
  ASSUME NEW k \in Kinds, NEW r \in Record[k], store \in {"memory", "csv", "sqlite", "sql"}
  PROVE  Same(k, r, Read(k, Entry(k, r)))
  <1> SUFFICES ASSUME NEW f \in Fields(k)
               PROVE  LET x == Read(k, Entry(k, r)) IN
                      CASE f = "metadata" /\ store # "memory" ->
                             x[f] = [plain |-> "plain", rich |-> "flat", wrapped |-> "inner"][r[f]]
                        [] f = "interval" /\ store # "memory" -> x[f] = r[f] - (r[f] % 2)
                        [] f \in FieldsOf[k].time /\ r[f] # None /\ store = "sqlite" ->
                             x[f].at = r[f].at
                        [] OTHER -> x[f] = r[f]
    BY DEF Same
  <1> DEFINE x == Read(k, Entry(k, r))
  <1>1. CASE store = "memory"
    BY <1>1 DEF Read, Entry
  <1>2. CASE store # "memory"
    <2>1. Back(SortOf(k, f), r[f], x[f])
      BY <1>2, EntryBack
    <2> HIDE DEF x
    <2>2. /\ f = "metadata" <=> SortOf(k, f) = "metadata"
          /\ f = "interval" <=> SortOf(k, f) = "seconds"
      BY NamedSorts
    <2>3. f \in FieldsOf[k].time <=> SortOf(k, f) = "time"
      BY SortIs DEF Sorts
    <2>4. CASE x[f] = r[f]
      BY <1>2, <2>1, <2>2, <2>3, <2>4 DEF Back, x
    <2>5. CASE x[f] # r[f]
      BY <1>2, <2>1, <2>2, <2>3, <2>5 DEF Back, x
    <2> QED BY <2>4, <2>5
  <1> QED BY <1>1, <1>2

\* The key is read as it was.
LEMMA KeyReadBack ==
  ASSUME NEW k \in Kinds, NEW r \in Record[k], store \in {"memory", "csv", "sqlite", "sql"}
  PROVE  KeyIn(k, Entry(k, r)) = KeyOf(k, r)
  <1> DEFINE x == Read(k, Entry(k, r))
  <1>1. ASSUME NEW f \in KeyFields[k] PROVE x[f] = r[f]
    <2>1. f \in FieldsOf[k]["id"] \cup FieldsOf[k]["count"]
      BY KindsAre DEF KeyFields, FieldsOf, StrategyEventRecord, TradeSummary, CycleSummary,
                      TaskSummary, ProfitMetric
    <2>2. f \in Fields(k) /\ SortOf(k, f) \in {"id", "count"}
      BY <2>1, SortsAre, SortIs DEF Fields, Sorts
    <2>3. CASE store = "memory"
      BY <2>3 DEF Read, Entry
    <2>4. CASE store # "memory"
      <3>1. Back(SortOf(k, f), r[f], x[f])
        BY <2>2, <2>4, EntryBack
      <3> QED BY <2>2, <3>1 DEF Back
    <2> QED BY <2>3, <2>4
  <1> QED BY <1>1 DEF KeyIn, KeyOf

-----------------------------------------------------------------------------
\* Sequences and sets of places.

\* The order of the files has each kind once.
LEMMA OrderIs ==
  /\ Len(Order) = 5 /\ DOMAIN Order = 1..5
  /\ \A j \in 1..5 : Order[j] \in Kinds
  /\ \A i, j \in 1..5 : Order[i] = Order[j] => i = j
  /\ \A k \in Kinds : \E j \in 1..5 : Order[j] = k
  <1>1. Len(Order) = 5 /\ DOMAIN Order = 1..5
    BY DEF Order
  <1>2. \A i, j \in 1..5 : Order[i] = Order[j] => i = j
    BY DEF Order
  <1> QED BY <1>1, <1>2 DEF Kinds

\* Numbers have a least one.
LEMMA FirstPlace ==
  ASSUME NEW S \in SUBSET Nat, S # {}
  PROVE  \E n \in S : \A m \in S : n <= m
  <1>1. IsWellFoundedOn(OpToRel(<, Nat), Nat)
    BY NatLessThanWellFounded
  <1>2. \E n \in S : \A m \in S : ~(<<m, n>> \in OpToRel(<, Nat))
    BY <1>1, WFMin
  <1>3. PICK n \in S : \A m \in S : ~(<<m, n>> \in OpToRel(<, Nat))
    BY <1>2
  <1>4. ASSUME NEW m \in S PROVE n <= m
    <2>1. ~(m < n)
      BY <1>3 DEF OpToRel
    <2> QED BY <2>1
  <1> QED BY <1>4

\* Places of a sequence have a last one.
LEMMA LastPlace ==
  ASSUME NEW L \in Nat, NEW S \in SUBSET (1..L), S # {}
  PROVE  \E n \in S : \A m \in S : m <= n
  <1> DEFINE T == {L - n : n \in S}
  <1>1. T \in SUBSET Nat /\ T # {}
    <2>1. \A n \in S : L - n \in Nat
      OBVIOUS
    <2> QED BY <2>1
  <1>2. PICK t \in T : \A u \in T : t <= u
    BY <1>1, FirstPlace
  <1>3. PICK n \in S : t = L - n
    OBVIOUS
  <1>4. ASSUME NEW m \in S PROVE m <= n
    <2>1. t <= L - m
      BY <1>2
    <2> QED BY <1>3, <2>1
  <1> QED BY <1>4

\* The places in their order are all of them, each once.
LEMMA OrderedPlaces ==
  ASSUME NEW L \in Nat, NEW S \in SUBSET (1..L), NEW p \in InOrder(S)
  PROVE  /\ Cardinality(S) \in Nat /\ p \in [1..Cardinality(S) -> S]
         /\ \A i, j \in 1..Cardinality(S) : i # j => p[i] # p[j]
         /\ \A s \in S : \E j \in 1..Cardinality(S) : p[j] = s
  <1> DEFINE n == Cardinality(S)
  <1>0. \A s \in S : s \in Int
    OBVIOUS
  <1>1. IsFiniteSet(S)
    <2>1. S \in SUBSET Nat /\ \A s \in S : s <= L
      OBVIOUS
    <2> QED BY <2>1, FS_BoundedSetOfNaturals
  <1>2. n \in Nat
    BY <1>1, FS_CardinalityType
  <1>3. p \in [1..n -> S] /\ \A i, j \in 1..n : i < j => p[i] < p[j]
    BY DEF InOrder
  <1> HIDE DEF n
  <1>4. ASSUME NEW i \in 1..n, NEW j \in 1..n, i # j PROVE p[i] # p[j]
    <2>1. i < j \/ j < i
      BY <1>2, <1>4
    <2>2. p[i] \in S /\ p[j] \in S
      BY <1>3
    <2>3. p[i] < p[j] \/ p[j] < p[i]
      BY <1>3, <1>4, <2>1
    <2>4. p[i] \in Int /\ p[j] \in Int
      BY <1>0, <2>2
    <2> QED BY <2>3, <2>4
  <1>5. p \in Injection(1..n, S)
    BY <1>3, <1>4 DEF Injection, IsInjective
  <1>6. Cardinality(1..n) = n
    BY <1>2, FS_Interval
  <1>7. p \in Surjection(1..n, S)
    BY <1>1, <1>5, <1>6, FS_Injection DEF n
  <1>8. \A s \in S : \E j \in 1..n : p[j] = s
    BY <1>7 DEF Surjection
  <1> QED BY <1>2, <1>3, <1>4, <1>8 DEF n

-----------------------------------------------------------------------------
\* What is found in the rows of a file.

Entries(k) == {Entry(k, r) : r \in Record[k]}
KeysOf(k, rs) == {KeyIn(k, rs[n]) : n \in DOMAIN rs}
At(k, rs, key) == {n \in DOMAIN rs : KeyIn(k, rs[n]) = key}
FoundIn(k, rs, key) ==
  {Read(k, rs[n]) :
     n \in {m \in At(k, rs, key) : k \in Unique \/ \A j \in At(k, rs, key) : j <= m}}

\* The CSV reader looks into the rows of one file.
LEMMA FoundInFile ==
  store = "csv" => \A i : Found(i) = FoundIn(i[1], files[i[1]].rows, i[2])
  BY DEF Found, FoundIn, At

\* A key that is in the rows is found.
LEMMA FoundSome ==
  ASSUME NEW k, NEW E, NEW rs \in Seq(E), NEW key
  PROVE  FoundIn(k, rs, key) # {} <=> key \in KeysOf(k, rs)
  <1>1. DOMAIN rs = 1..Len(rs) /\ Len(rs) \in Nat
    OBVIOUS
  <1>2. At(k, rs, key) # {} <=> key \in KeysOf(k, rs)
    BY DEF At, KeysOf
  <1>3. At(k, rs, key) # {} => \E m \in At(k, rs, key) : \A j \in At(k, rs, key) : j <= m
    <2>1. At(k, rs, key) \in SUBSET (1..Len(rs))
      BY <1>1 DEF At
    <2> QED BY <1>1, <2>1, LastPlace
  <1> QED BY <1>2, <1>3 DEF FoundIn

\* The row of a key among the appended ones that is the last.
LEMMA FoundFurther ==
  ASSUME NEW k, NEW E, NEW rs \in Seq(E), NEW es \in Seq(E), NEW key,
         NEW x \in FoundIn(k, rs \o es, key)
  PROVE  \/ /\ x \in FoundIn(k, rs, key)
            /\ k \in Unique \/ key \notin KeysOf(k, es)
         \/ \E n \in At(k, es, key) :
              /\ x = Read(k, es[n])
              /\ k \in Unique \/ \A m \in At(k, es, key) : m <= n
  <1> DEFINE all == rs \o es
             a == Len(rs)
             b == Len(es)
  <1>1. /\ a \in Nat /\ b \in Nat /\ DOMAIN rs = 1..a /\ DOMAIN es = 1..b
        /\ DOMAIN all = 1..(a + b)
        /\ \A n \in 1..a : all[n] = rs[n]
        /\ \A n \in 1..b : all[a + n] = es[n]
    OBVIOUS
  <1> HIDE DEF all, a, b
  <1>2. PICK n \in At(k, all, key) :
          x = Read(k, all[n]) /\ (k \in Unique \/ \A j \in At(k, all, key) : j <= n)
    BY DEF FoundIn, all
  <1>3. n \in 1..(a + b) /\ KeyIn(k, all[n]) = key
    BY <1>1, <1>2 DEF At
  <1>4. \A m \in At(k, rs, key) : m \in At(k, all, key)
    BY <1>1 DEF At
  <1>5. \A m \in At(k, es, key) : a + m \in At(k, all, key) /\ m \in 1..b
    BY <1>1 DEF At
  <1>6. CASE n <= a
    <2>1. n \in 1..a /\ n \in At(k, rs, key) /\ x = Read(k, rs[n])
      BY <1>1, <1>2, <1>3, <1>6 DEF At
    <2>2. CASE k \in Unique
      BY <2>1, <2>2 DEF FoundIn
    <2>3. CASE k \notin Unique
      <3>1. At(k, es, key) = {}
        <4>1. ASSUME NEW m \in At(k, es, key) PROVE FALSE
          BY <1>1, <1>2, <1>5, <1>6, <2>1, <2>3
        <4> QED BY <4>1
      <3>2. key \notin KeysOf(k, es)
        BY <3>1 DEF At, KeysOf
      <3>3. \A j \in At(k, rs, key) : j <= n
        BY <1>2, <1>4, <2>3
      <3> QED BY <2>1, <3>2, <3>3 DEF FoundIn
    <2> QED BY <2>2, <2>3
  <1>7. CASE n > a
    <2>1. /\ n - a \in 1..b /\ a + (n - a) = n
      BY <1>1, <1>3, <1>7
    <2>2. n - a \in At(k, es, key) /\ x = Read(k, es[n - a])
      BY <1>1, <1>2, <1>3, <2>1 DEF At
    <2>3. ASSUME k \notin Unique, NEW m \in At(k, es, key) PROVE m <= n - a
      BY <1>1, <1>2, <1>5, <2>1, <2>3
    <2> QED BY <2>2, <2>3
  <1>8. n <= a \/ n > a
    BY <1>1, <1>3
  <1> QED BY <1>6, <1>7, <1>8

\* The keys of rows with others after them.
LEMMA KeysFurther ==
  ASSUME NEW k, NEW E, NEW rs \in Seq(E), NEW es \in Seq(E)
  PROVE  KeysOf(k, rs \o es) = KeysOf(k, rs) \cup KeysOf(k, es)
  <1> DEFINE all == rs \o es
             a == Len(rs)
             b == Len(es)
  <1>1. /\ a \in Nat /\ b \in Nat /\ DOMAIN rs = 1..a /\ DOMAIN es = 1..b
        /\ DOMAIN all = 1..(a + b)
        /\ \A n \in 1..a : all[n] = rs[n]
        /\ \A n \in 1..b : all[a + n] = es[n]
    OBVIOUS
  <1> HIDE DEF all, a, b
  <1>2. \A n \in 1..(a + b) : n \in 1..a \/ (n - a \in 1..b /\ n = a + (n - a))
    BY <1>1
  <1>3. \A n \in 1..a : n \in 1..(a + b)
    BY <1>1
  <1>4. \A n \in 1..b : a + n \in 1..(a + b)
    BY <1>1
  <1>5. \A key : key \in KeysOf(k, all) <=> key \in KeysOf(k, rs) \cup KeysOf(k, es)
    <2> TAKE key
    <2>1. ASSUME key \in KeysOf(k, all) PROVE key \in KeysOf(k, rs) \cup KeysOf(k, es)
      <3>1. PICK n \in 1..(a + b) : key = KeyIn(k, all[n])
        BY <1>1, <2>1 DEF KeysOf
      <3> QED BY <1>1, <1>2, <3>1 DEF KeysOf
    <2>2. ASSUME key \in KeysOf(k, rs) PROVE key \in KeysOf(k, all)
      BY <1>1, <1>3, <2>2 DEF KeysOf
    <2>3. ASSUME key \in KeysOf(k, es) PROVE key \in KeysOf(k, all)
      BY <1>1, <1>4, <2>3 DEF KeysOf
    <2> QED BY <2>1, <2>2, <2>3
  <1> QED BY <1>5 DEF all

-----------------------------------------------------------------------------
\* The rows a batch adds.

\* A batch, and the entries of its records.
Batched(k) == batch[k] \in Seq(Record[k])
Typed == store \in {"memory", "csv", "sqlite", "sql"}

\* The entries of a batch are those of its records.
LEMMA EntriesIs ==
  ASSUME NEW k \in Kinds, Typed, Batched(k)
  PROVE  /\ EntriesOf(k) \in Seq(Entries(k)) /\ DOMAIN EntriesOf(k) = DOMAIN batch[k]
         /\ DOMAIN batch[k] = 1..Len(batch[k]) /\ Len(batch[k]) \in Nat
         /\ \A n \in DOMAIN batch[k] :
              /\ batch[k][n] \in Record[k] /\ EntriesOf(k)[n] = Entry(k, batch[k][n])
              /\ KeyIn(k, EntriesOf(k)[n]) = KeyOf(k, batch[k][n])
  <1>1. /\ DOMAIN batch[k] = 1..Len(batch[k]) /\ Len(batch[k]) \in Nat
        /\ \A n \in DOMAIN batch[k] : batch[k][n] \in Record[k]
    BY DEF Batched
  <1>2. /\ DOMAIN EntriesOf(k) = DOMAIN batch[k]
        /\ \A n \in DOMAIN batch[k] : EntriesOf(k)[n] = Entry(k, batch[k][n])
    BY DEF EntriesOf
  <1>3. EntriesOf(k) \in Seq(Entries(k))
    <2>1. EntriesOf(k) = [n \in 1..Len(batch[k]) |-> Entry(k, batch[k][n])]
      BY <1>1 DEF EntriesOf
    <2>2. \A n \in 1..Len(batch[k]) : Entry(k, batch[k][n]) \in Entries(k)
      BY <1>1 DEF Entries
    <2> QED BY <1>1, <2>1, <2>2
  <1> QED BY <1>1, <1>2, <1>3, KeyReadBack DEF Typed

\* The rows to append: of a unique kind new keys only, each once, and none missing.
LEMMA AppendedAre ==
  ASSUME NEW k \in Kinds, Typed, Batched(k), NEW rows \in ToAppend(k)
  PROVE  /\ rows \in Seq(Entries(k))
         /\ k \notin Unique => rows = EntriesOf(k)
         /\ \A j \in DOMAIN rows : \E n \in DOMAIN batch[k] : rows[j] = Entry(k, batch[k][n])
         /\ k \in Unique =>
              /\ \A j \in DOMAIN rows : KeyIn(k, rows[j]) \notin KnownKeys(k)
              /\ \A i, j \in DOMAIN rows : i # j => KeyIn(k, rows[i]) # KeyIn(k, rows[j])
              /\ \A n \in DOMAIN batch[k] :
                   KeyOf(k, batch[k][n]) \in KnownKeys(k) \cup KeysOf(k, rows)
  <1> DEFINE es == EntriesOf(k)
             L == Len(batch[k])
             S == NewPlaces(k)
             N == Cardinality(S)
  <1>1. /\ es \in Seq(Entries(k)) /\ DOMAIN es = 1..L /\ L \in Nat /\ DOMAIN batch[k] = 1..L
        /\ \A n \in 1..L : /\ es[n] = Entry(k, batch[k][n])
                           /\ KeyIn(k, es[n]) = KeyOf(k, batch[k][n])
                           /\ es[n] \in Entries(k)
    BY EntriesIs
  <1>2. CASE k \notin Unique
    <2>1. rows = es
      BY <1>2 DEF ToAppend
    <2> QED BY <1>1, <1>2, <2>1
  <1>3. CASE k \in Unique
    <2>1. PICK p \in InOrder(S) : rows = [j \in DOMAIN p |-> es[p[j]]]
      BY <1>3 DEF ToAppend
    <2>2. S \in SUBSET (1..L)
      BY <1>1 DEF NewPlaces
    <2>3. \A n \in 1..L : n \in S <=>
            /\ KeyIn(k, es[n]) \notin KnownKeys(k)
            /\ \A m \in 1..(n - 1) : KeyIn(k, es[m]) # KeyIn(k, es[n])
      BY <1>1 DEF NewPlaces
    <2> HIDE DEF es, L, S
    <2>4. /\ N \in Nat /\ p \in [1..N -> S]
          /\ \A i, j \in 1..N : i # j => p[i] # p[j]
          /\ \A s \in S : \E j \in 1..N : p[j] = s
      BY <1>1, <2>2, OrderedPlaces
    <2> HIDE DEF N
    <2>5. /\ DOMAIN rows = 1..N
          /\ \A j \in 1..N : rows[j] = es[p[j]] /\ p[j] \in S /\ p[j] \in 1..L
      BY <2>1, <2>2, <2>4
    <2>6. rows \in Seq(Entries(k))
      <3>1. rows = [j \in 1..N |-> es[p[j]]]
        BY <2>1, <2>4
      <3>2. \A j \in 1..N : es[p[j]] \in Entries(k)
        BY <1>1, <2>5
      <3> QED BY <2>4, <3>1, <3>2
    <2>7. \A j \in DOMAIN rows : \E n \in DOMAIN batch[k] : rows[j] = Entry(k, batch[k][n])
      BY <1>1, <2>5
    <2>8. \A j \in DOMAIN rows : KeyIn(k, rows[j]) \notin KnownKeys(k)
      BY <2>3, <2>5
    <2>9. ASSUME NEW i \in DOMAIN rows, NEW j \in DOMAIN rows, i # j
          PROVE  KeyIn(k, rows[i]) # KeyIn(k, rows[j])
      <3>1. /\ p[i] # p[j] /\ p[i] \in S /\ p[j] \in S /\ p[i] \in 1..L /\ p[j] \in 1..L
            /\ rows[i] = es[p[i]] /\ rows[j] = es[p[j]]
        BY <2>4, <2>5, <2>9
      <3>2. \A m, n \in 1..L : m # n => m \in 1..(n - 1) \/ n \in 1..(m - 1)
        BY <1>1
      <3>3. p[i] \in 1..(p[j] - 1) \/ p[j] \in 1..(p[i] - 1)
        BY <3>1, <3>2
      <3> QED BY <2>3, <3>1, <3>3
    <2>10. ASSUME NEW n \in DOMAIN batch[k]
           PROVE  KeyOf(k, batch[k][n]) \in KnownKeys(k) \cup KeysOf(k, rows)
      <3> DEFINE key == KeyOf(k, batch[k][n])
                 T == {m \in 1..L : KeyIn(k, es[m]) = key}
      <3>1. T \in SUBSET Nat /\ T # {}
        BY <1>1, <2>10
      <3>2. PICK f \in T : \A m \in T : f <= m
        BY <3>1, FirstPlace
      <3>3. f \in 1..L /\ KeyIn(k, es[f]) = key
        BY <3>2
      <3>4. \A m \in 1..(f - 1) : m \in 1..L /\ ~(f <= m)
        BY <1>1, <3>3
      <3>5. \A m \in 1..(f - 1) : KeyIn(k, es[m]) # KeyIn(k, es[f])
        BY <3>2, <3>3, <3>4
      <3>6. CASE key \in KnownKeys(k)
        BY <3>6
      <3>7. CASE key \notin KnownKeys(k)
        <4>1. f \in S
          BY <2>3, <3>3, <3>5, <3>7
        <4>2. PICK j \in 1..N : p[j] = f
          BY <2>4, <4>1
        <4>3. j \in DOMAIN rows /\ KeyIn(k, rows[j]) = key
          BY <2>5, <3>3, <4>2
        <4> QED BY <4>3 DEF KeysOf
      <3> QED BY <3>6, <3>7
    <2> QED BY <1>3, <2>6, <2>7, <2>8, <2>9, <2>10
  <1> QED BY <1>2, <1>3

-----------------------------------------------------------------------------
\* The inductive invariant.

NoBatch == [k \in Kinds |-> <<>>]
RowKeys(k) == KeysOf(k, files[k].rows)
Stands(i, x) == \E r \in since[i] \cup ({kept[i]} \ {None}) : Same(i[1], r, x)
File(k) == [there : BOOLEAN, headed : BOOLEAN, whole : BOOLEAN, rows : Seq(Entries(k))]

Bounds ==
  /\ store \in {"memory", "csv", "sqlite", "sql"} /\ stopped \subseteq Kinds
  /\ at \in 0..(Len(Order) + 1) /\ calls \in 0..MaxCalls /\ opens \in 1..MaxOpens

\* The batch is one that was given, and its records are in the history until
\* the call returns.
HistoryInv ==
  /\ batch \in Batches \cup {NoBatch}
  /\ \A i \in Ids : \A r \in since[i] \cup ({kept[i]} \ {None}) :
       r \in Record[i[1]] /\ IdOf(i[1], r) = i
  /\ at > 0 => \A k \in Kinds : \A n \in DOMAIN batch[k] :
                 batch[k][n] \in since[IdOf(k, batch[k][n])]

\* Every row of a file was a record's; a file that is not there is empty.
FilesInv ==
  /\ DOMAIN files = Kinds /\ DOMAIN known = Kinds
  /\ \A k \in Kinds : /\ files[k] \in File(k)
                      /\ files[k].headed \/ files[k].rows # <<>> => files[k].there
                      /\ store # "csv" => files[k] = NoFile

\* The keys remembered are in the file, and all of its keys are remembered when
\* this store has not stopped in it.
KnownInv ==
  \A k \in Unique : known[k] # None =>
    /\ known[k] \subseteq RowKeys(k)
    /\ Readable(k) /\ k \notin stopped => RowKeys(k) \subseteq known[k]

\* What was kept is found, and what is found was kept or came after it.
FoundInv ==
  \A i \in Ids : /\ kept[i] # None => Found(i) # {}
                 /\ \A x \in Found(i) : Stands(i, x)

\* The kinds a call of the CSV store is through with have its records.
DoneInv ==
  store = "csv" => \A j \in 1..(at - 1) : \A i \in IdsInBatch : i[1] = Order[j] =>
    Found(i) # {} /\ \A x \in Found(i) : Same(i[1], LastOf(i), x)

IInv == Bounds /\ HistoryInv /\ FilesInv /\ KnownInv /\ FoundInv /\ DoneInv

-----------------------------------------------------------------------------
\* Ids.

\* An id is a kind and a key.
LEMMA IdIs ==
  /\ \A i \in Ids : i[1] \in Kinds /\ i = <<i[1], i[2]>>
  /\ \A k \in Kinds : \A r \in Record[k] : IdOf(k, r) \in Ids
  /\ \A i \in Ids : \A k, r : IdOf(k, r) = i <=> k = i[1] /\ KeyOf(k, r) = i[2]
  <1>1. \A i \in Ids : \E k \in Kinds : \E r \in Record[k] : i = <<k, KeyOf(k, r)>>
    BY DEF Ids
  <1>2. \A k \in Kinds : \A r \in Record[k] : IdOf(k, r) \in Ids
    BY DEF Ids, IdOf
  <1>3. \A i \in Ids : i[1] \in Kinds /\ i = <<i[1], i[2]>>
    BY <1>1
  <1>4. \A k, r : IdOf(k, r) = <<k, KeyOf(k, r)>>
    BY DEF IdOf
  <1>5. ASSUME NEW i \in Ids, NEW k, NEW r
        PROVE  IdOf(k, r) = i <=> k = i[1] /\ KeyOf(k, r) = i[2]
    <2>1. <<k, KeyOf(k, r)>>[1] = k /\ <<k, KeyOf(k, r)>>[2] = KeyOf(k, r)
      OBVIOUS
    <2> QED BY <1>3, <1>4, <2>1
  <1> QED BY <1>2, <1>3, <1>5

\* The batch is made of records.
LEMMA BatchIs ==
  ASSUME HistoryInv, NEW k \in Kinds
  PROVE  Batched(k)
  <1>1. CASE batch \in Batches
    BY <1>1, StoresAssumption DEF Batched
  <1>2. CASE batch = NoBatch
    <2>1. batch[k] = <<>>
      BY <1>2 DEF NoBatch
    <2> QED BY <2>1 DEF Batched
  <1> QED BY <1>1, <1>2 DEF HistoryInv

\* The last record of an id in the batch.
LEMMA LastIs ==
  ASSUME HistoryInv, NEW i \in IdsInBatch
  PROVE  \E n \in DOMAIN batch[i[1]] :
           /\ LastOf(i) = batch[i[1]][n] /\ IdOf(i[1], batch[i[1]][n]) = i
           /\ batch[i[1]][n] \in Record[i[1]]
           /\ \A m \in DOMAIN batch[i[1]] : IdOf(i[1], batch[i[1]][m]) = i => m <= n
  <1> DEFINE ns == {n \in DOMAIN batch[i[1]] : IdOf(i[1], batch[i[1]][n]) = i}
  <1>1. i \in Ids /\ i[1] \in Kinds
    BY IdIs DEF IdsInBatch
  <1>2. /\ Len(batch[i[1]]) \in Nat /\ DOMAIN batch[i[1]] = 1..Len(batch[i[1]])
        /\ \A n \in DOMAIN batch[i[1]] : batch[i[1]][n] \in Record[i[1]]
    BY <1>1, BatchIs DEF Batched
  <1>3. ns # {} /\ ns \in SUBSET (1..Len(batch[i[1]]))
    BY <1>2 DEF IdsInBatch
  <1>4. \E n \in ns : \A m \in ns : m <= n
    BY <1>2, <1>3, LastPlace
  <1>5. PICK n \in ns : (\A m \in ns : m <= n) /\ LastOf(i) = batch[i[1]][n]
    BY <1>4 DEF LastOf
  <1> QED BY <1>2, <1>5

\* The record of an event or a metric is the only one of its key.
LEMMA OneRecord ==
  ASSUME NEW i \in Ids, i[1] \in Unique, NEW r \in Record[i[1]], NEW s \in Record[i[1]],
         IdOf(i[1], r) = i, IdOf(i[1], s) = i
  PROVE  r = s
  <1>1. KeyOf(i[1], r) = KeyOf(i[1], s)
    BY IdIs
  <1> QED BY <1>1, StoresAssumption

-----------------------------------------------------------------------------
\* A step leaves the kind of store alone, and what depends on it.

\* Rows and readers are a matter of the kind of store only.
LEMMA Still ==
  ASSUME UNCHANGED store
  PROVE  /\ \A k, r : Entry(k, r)' = Entry(k, r)
         /\ \A k, e : Read(k, e)' = Read(k, e) /\ KeyIn(k, e)' = KeyIn(k, e)
         /\ \A k, r, x : Same(k, r, x)' <=> Same(k, r, x)
         /\ \A k : Entries(k)' = Entries(k) /\ File(k)' = File(k)
         /\ \A k, rs, key : KeysOf(k, rs)' = KeysOf(k, rs)
  <1>1. \A k, r : Entry(k, r)' = Entry(k, r)
    BY DEF Entry
  <1>2. \A k, e : Read(k, e)' = Read(k, e) /\ KeyIn(k, e)' = KeyIn(k, e)
    BY DEF Read, KeyIn
  <1>3. \A k, r, x : Same(k, r, x)' <=> Same(k, r, x)
    BY DEF Same
  <1>4. \A k : Entries(k)' = Entries(k)
    BY <1>1 DEF Entries
  <1>5. \A k : File(k)' = File(k)
    BY <1>4 DEF File
  <1>6. \A k, rs, key : KeysOf(k, rs)' = KeysOf(k, rs)
    BY <1>2 DEF KeysOf
  <1> QED BY <1>1, <1>2, <1>3, <1>4, <1>5, <1>6

\* What is found after a step that changes the rows of a file.
LEMMA FoundNext ==
  ASSUME UNCHANGED store, store = "csv", NEW i, NEW rs, rs = files'[i[1]].rows
  PROVE  Found(i)' = FoundIn(i[1], rs, i[2])
  <1>1. Found(i)' = {Read(i[1], files'[i[1]].rows[n]) :
          n \in {m \in {l \in DOMAIN files'[i[1]].rows :
                          KeyIn(i[1], files'[i[1]].rows[l]) = i[2]} :
                 i[1] \in Unique \/
                   \A j \in {l \in DOMAIN files'[i[1]].rows :
                               KeyIn(i[1], files'[i[1]].rows[l]) = i[2]} : j <= m}}
    BY DEF Found, KeyIn, Read
  <1> QED BY <1>1 DEF FoundIn, At

\* The keys after such a step.
LEMMA RowKeysNext ==
  ASSUME UNCHANGED store, NEW k, NEW rs, rs = files'[k].rows
  PROVE  RowKeys(k)' = KeysOf(k, rs)
  BY Still DEF RowKeys, KeysOf

-----------------------------------------------------------------------------
\* An append, whole or stopped.

\* Rows that a batch adds to a file, or the first of them.
Fresh(k, es) ==
  /\ es \in Seq(Entries(k))
  /\ \A j \in DOMAIN es : \E n \in DOMAIN batch[k] : es[j] = Entry(k, batch[k][n])
  /\ k \in Unique =>
       /\ \A j \in DOMAIN es : KeyIn(k, es[j]) \notin KnownKeys(k)
       /\ \A i, j \in DOMAIN es : i # j => KeyIn(k, es[i]) # KeyIn(k, es[j])

\* The step appends them to the file of the kind.
Grows(k, es) ==
  /\ Fresh(k, es)
  /\ DOMAIN files' = Kinds /\ \A j \in Kinds \ {k} : files'[j] = files[j]
  /\ files'[k] \in File(k) /\ files'[k].rows = files[k].rows \o es
  /\ files'[k].headed \/ files'[k].rows # <<>> => files'[k].there
  /\ files[k].there /\ files'[k].there /\ files'[k].headed /\ files'[k].whole
       => files[k].headed /\ files[k].whole
  /\ files[k].there => files'[k].there

\* The first of the rows to append are fresh too.
LEMMA FreshPrefix ==
  ASSUME NEW k \in Kinds, Typed, Batched(k), NEW rows \in ToAppend(k), NEW m \in Int, m <= Len(rows)
  PROVE  Fresh(k, SubSeq(rows, 1, m))
  <1> DEFINE es == SubSeq(rows, 1, m)
  <1>1. /\ rows \in Seq(Entries(k))
        /\ \A j \in DOMAIN rows : \E n \in DOMAIN batch[k] : rows[j] = Entry(k, batch[k][n])
        /\ k \in Unique =>
             /\ \A j \in DOMAIN rows : KeyIn(k, rows[j]) \notin KnownKeys(k)
             /\ \A i, j \in DOMAIN rows : i # j => KeyIn(k, rows[i]) # KeyIn(k, rows[j])
    BY AppendedAre
  <1>2. /\ es \in Seq(Entries(k)) /\ DOMAIN es = 1..m
        /\ \A j \in DOMAIN es : es[j] = rows[j] /\ j \in DOMAIN rows
    <2>1. /\ DOMAIN rows = 1..Len(rows) /\ Len(rows) \in Nat
          /\ \A j \in 1..Len(rows) : rows[j] \in Entries(k)
      BY <1>1
    <2>2. es = [j \in 1..m |-> rows[j]]
      BY <1>1, <2>1
    <2>3. \A j \in 1..m : j \in 1..Len(rows)
      BY <2>1
    <2>4. es \in Seq(Entries(k))
      <3>1. CASE m >= 0
        BY <2>1, <2>2, <2>3, <3>1
      <3>2. CASE m < 0
        BY <2>1, <2>2, <3>2
      <3> QED BY <3>1, <3>2
    <2> QED BY <2>1, <2>2, <2>3, <2>4
  <1> HIDE DEF es
  <1> QED BY <1>1, <1>2 DEF Fresh, es

\* However many lines were written, the file has grown by the first of the rows.
LEMMA WrittenGrows ==
  ASSUME Bounds, HistoryInv, FilesInv, NEW k \in Kinds, NEW rows \in ToAppend(k),
         NEW n \in 0..Lines(k, rows), NEW whole \in BOOLEAN,
         files' = [files EXCEPT ![k] = Written(k, rows, n, whole)]
  PROVE  \E es : /\ Grows(k, es)
                 /\ n = Lines(k, rows) => es = rows
  <1> DEFINE first == IF files[k].there THEN 0 ELSE 1
             m == n - first
             es == SubSeq(rows, 1, m)
  <1>1. Typed /\ Batched(k)
    BY BatchIs DEF Bounds, Typed
  <1>2. rows \in Seq(Entries(k)) /\ Len(rows) \in Nat
    BY <1>1, AppendedAre
  <1>3. first \in {0, 1} /\ Lines(k, rows) = Len(rows) + first
    BY <1>2 DEF Lines
  <1>4. m \in Int /\ m <= Len(rows)
    BY <1>2, <1>3
  <1>5. Fresh(k, es)
    BY <1>1, <1>4, FreshPrefix
  <1>6. n = Lines(k, rows) => es = rows
    <2>1. n = Lines(k, rows) => m = Len(rows)
      BY <1>2, <1>3
    <2>2. SubSeq(rows, 1, Len(rows)) = rows
      BY <1>2
    <2> QED BY <2>1, <2>2
  <1>7. /\ DOMAIN files' = Kinds /\ \A j \in Kinds \ {k} : files'[j] = files[j]
        /\ files'[k] = Written(k, rows, n, whole)
    BY DEF FilesInv
  <1>8. files'[k] = [there |-> TRUE, headed |-> files[k].headed \/ (first = 1 /\ n > 0),
                     whole |-> files[k].whole /\ whole, rows |-> files[k].rows \o es]
    BY <1>7 DEF Written
  <1>9. files[k] \in File(k)
    BY DEF FilesInv
  <1>10. /\ files[k].rows \in Seq(Entries(k))
         /\ files[k].headed \in BOOLEAN /\ files[k].whole \in BOOLEAN
    BY <1>9 DEF File
  <1>11. es \in Seq(Entries(k))
    BY <1>5 DEF Fresh
  <1> DEFINE h == files[k].headed \/ (first = 1 /\ n > 0)
             w == files[k].whole /\ whole
             rs == files[k].rows \o es
  <1>12. h \in BOOLEAN /\ w \in BOOLEAN /\ rs \in Seq(Entries(k))
    BY <1>10, <1>11
  <1>13. files[k].there /\ h /\ w => files[k].headed /\ files[k].whole
    OBVIOUS
  <1>14. /\ files'[k] = [there |-> TRUE, headed |-> h, whole |-> w, rows |-> rs]
         /\ rs = files[k].rows \o es
    BY <1>8
  <1> HIDE DEF h, w, rs, es, m, first
  <1>15. files'[k] \in File(k)
    <2> DEFINE Rs == Seq(Entries(k))
    <2>1. rs \in Rs
      BY <1>12
    <2>2. File(k) = [there : BOOLEAN, headed : BOOLEAN, whole : BOOLEAN, rows : Rs]
      BY DEF File
    <2> HIDE DEF Rs
    <2>3. [there |-> TRUE, headed |-> h, whole |-> w, rows |-> rs]
            \in [there : BOOLEAN, headed : BOOLEAN, whole : BOOLEAN, rows : Rs]
      BY <1>12, <2>1
    <2> QED BY <1>14, <2>2, <2>3
  <1>16. /\ files'[k].there /\ files'[k].rows = files[k].rows \o es
         /\ files[k].there /\ files'[k].headed /\ files'[k].whole
              => files[k].headed /\ files[k].whole
    BY <1>12, <1>13, <1>14
  <1> QED BY <1>5, <1>6, <1>7, <1>15, <1>16 DEF Grows

\* A file that is left alone has none of the rows added.
LEMMA UnchangedGrows ==
  ASSUME Typed, FilesInv, NEW k \in Kinds, Batched(k), NEW rows \in ToAppend(k),
         UNCHANGED files
  PROVE  Grows(k, SubSeq(rows, 1, 0))
  <1>1. files[k] \in File(k)
    BY DEF FilesInv
  <1>2. rows \in Seq(Entries(k)) /\ 0 \in Int /\ 0 <= Len(rows)
    BY AppendedAre
  <1>3. Fresh(k, SubSeq(rows, 1, 0))
    BY <1>2, FreshPrefix
  <1>4. SubSeq(rows, 1, 0) = <<>>
    BY <1>2
  <1>5. files[k].rows \in Seq(Entries(k))
    BY <1>1 DEF File
  <1>6. files[k].rows \o SubSeq(rows, 1, 0) = files[k].rows
    BY <1>4, <1>5
  <1> QED BY <1>1, <1>3, <1>6 DEF Grows, FilesInv

\* AppendKind adds all of the rows.
LEMMA AppendGrows ==
  ASSUME Bounds, HistoryInv, FilesInv, AppendKind
  PROVE  \E es \in ToAppend(Kind) : Grows(Kind, es)
  <1>1. Kind \in Kinds
    BY OrderIs DEF AppendKind, Appending, Kind
  <1>2. PICK rows \in ToAppend(Kind) :
          files' = IF rows = <<>> THEN files
                   ELSE [files EXCEPT ![Kind] = Written(Kind, rows, Lines(Kind, rows), TRUE)]
    BY DEF AppendKind
  <1>3. Typed /\ Batched(Kind)
    BY <1>1, BatchIs DEF Bounds, Typed
  <1>4. rows \in Seq(Entries(Kind)) /\ Len(rows) \in Nat
    BY <1>1, <1>3, AppendedAre
  <1>5. CASE rows = <<>>
    <2>1. UNCHANGED files
      BY <1>2, <1>5
    <2>2. Grows(Kind, SubSeq(rows, 1, 0))
      BY <1>1, <1>3, <2>1, UnchangedGrows
    <2>3. SubSeq(rows, 1, 0) = rows
      BY <1>4, <1>5
    <2> QED BY <2>2, <2>3
  <1>6. CASE rows # <<>>
    <2>1. Lines(Kind, rows) \in 0..Lines(Kind, rows)
      BY <1>4 DEF Lines
    <2>2. files' = [files EXCEPT ![Kind] = Written(Kind, rows, Lines(Kind, rows), TRUE)]
      BY <1>2, <1>6
    <2>3. \E es : Grows(Kind, es) /\ (Lines(Kind, rows) = Lines(Kind, rows) => es = rows)
      BY <1>1, <2>1, <2>2, WrittenGrows
    <2> QED BY <2>3
  <1> QED BY <1>5, <1>6

\* StopAppend adds the first of them.
LEMMA StopGrows ==
  ASSUME Bounds, HistoryInv, FilesInv, StopAppend
  PROVE  \E es : Grows(Kind, es)
  <1>1. Kind \in Kinds
    BY OrderIs DEF StopAppend, Appending, Kind
  <1>2. PICK rows \in ToAppend(Kind) :
          \/ UNCHANGED files
          \/ \E n \in 0..Lines(Kind, rows), whole \in BOOLEAN :
               files' = [files EXCEPT ![Kind] = Written(Kind, rows, n, whole)]
    BY DEF StopAppend
  <1>3. CASE UNCHANGED files
    <2>1. Typed /\ Batched(Kind)
      BY <1>1, BatchIs DEF Bounds, Typed
    <2> QED BY <1>1, <1>2, <1>3, <2>1, UnchangedGrows
  <1>4. CASE ~UNCHANGED files
    <2>1. PICK n \in 0..Lines(Kind, rows), whole \in BOOLEAN :
            files' = [files EXCEPT ![Kind] = Written(Kind, rows, n, whole)]
      BY <1>2, <1>4
    <2> QED BY <1>1, <2>1, WrittenGrows
  <1> QED BY <1>3, <1>4

-----------------------------------------------------------------------------
\* What an append leaves true.

\* The files keep their types.
LEMMA GrownFiles ==
  ASSUME FilesInv, store = "csv", UNCHANGED store, DOMAIN known' = Kinds,
         NEW k \in Kinds, NEW es, Grows(k, es)
  PROVE  FilesInv'
  <1>1. \A j \in Kinds : File(j)' = File(j)
    BY Still
  <1>2. \A j \in Kinds : files'[j] \in File(j)
    BY DEF Grows, FilesInv
  <1>3. \A j \in Kinds : files'[j].headed \/ files'[j].rows # <<>> => files'[j].there
    BY DEF Grows, FilesInv
  <1>4. DOMAIN files' = Kinds
    BY DEF Grows
  <1>5. store' = "csv"
    OBVIOUS
  <1> QED BY <1>1, <1>2, <1>3, <1>4, <1>5 DEF FilesInv

\* The keys in the file, and what is found in it.
LEMMA GrownKeys ==
  ASSUME FilesInv, store = "csv", UNCHANGED store, NEW k \in Kinds, NEW es, Grows(k, es)
  PROVE  /\ RowKeys(k)' = RowKeys(k) \cup KeysOf(k, es)
         /\ \A j \in Kinds \ {k} : RowKeys(j)' = RowKeys(j)
  <1>1. files[k].rows \in Seq(Entries(k)) /\ es \in Seq(Entries(k))
    BY DEF FilesInv, File, Grows, Fresh
  <1>2. KeysOf(k, files'[k].rows) = RowKeys(k) \cup KeysOf(k, es)
    BY <1>1, KeysFurther DEF Grows, RowKeys
  <1>3. \A j \in Kinds \ {k} : KeysOf(j, files'[j].rows) = RowKeys(j)
    BY DEF Grows, RowKeys
  <1> QED BY <1>2, <1>3, RowKeysNext

\* Other kinds are found as before.
LEMMA GrownOthers ==
  ASSUME store = "csv", UNCHANGED store, NEW k \in Kinds, NEW es, Grows(k, es),
         NEW i \in Ids, i[1] # k
  PROVE  Found(i)' = Found(i)
  <1>1. files'[i[1]] = files[i[1]]
    BY IdIs DEF Grows
  <1>2. Found(i) = FoundIn(i[1], files[i[1]].rows, i[2])
    BY FoundInFile
  <1> QED BY <1>1, <1>2, FoundNext

\* What is found was found before, unless a newer row of its summary came, or is in
\* a row that came.
LEMMA GrownFound ==
  ASSUME FilesInv, HistoryInv, Typed, store = "csv", UNCHANGED store,
         NEW k \in Kinds, NEW es, Grows(k, es), NEW i \in Ids, i[1] = k
  PROVE  /\ Found(i)' # {} <=> i[2] \in RowKeys(k) \cup KeysOf(k, es)
         /\ Found(i) # {} <=> i[2] \in RowKeys(k)
         /\ \A x \in Found(i)' :
              \/ x \in Found(i) /\ (k \in Unique \/ i[2] \notin KeysOf(k, es))
              \/ \E n \in At(k, es, i[2]) :
                   /\ x = Read(k, es[n])
                   /\ k \in Unique \/ \A m \in At(k, es, i[2]) : m <= n
  <1>1. files[k].rows \in Seq(Entries(k)) /\ es \in Seq(Entries(k))
    BY DEF FilesInv, File, Grows, Fresh
  <1>2. /\ Found(i)' = FoundIn(k, files[k].rows \o es, i[2])
        /\ Found(i) = FoundIn(k, files[k].rows, i[2])
    BY FoundNext, FoundInFile DEF Grows
  <1>3. files[k].rows \o es \in Seq(Entries(k))
    BY <1>1
  <1>4. Found(i)' # {} <=> i[2] \in RowKeys(k) \cup KeysOf(k, es)
    <2>1. KeysOf(k, files[k].rows \o es) = RowKeys(k) \cup KeysOf(k, es)
      BY <1>1, KeysFurther DEF RowKeys
    <2>2. FoundIn(k, files[k].rows \o es, i[2]) # {}
            <=> i[2] \in KeysOf(k, files[k].rows \o es)
      BY <1>3, FoundSome
    <2> QED BY <1>2, <2>1, <2>2
  <1>5. Found(i) # {} <=> i[2] \in RowKeys(k)
    BY <1>1, <1>2, FoundSome DEF RowKeys
  <1> QED BY <1>1, <1>2, <1>4, <1>5, FoundFurther

\* A row of the batch stands for its record.
LEMMA GrownRow ==
  ASSUME HistoryInv, Typed, at > 0, NEW k \in Kinds, NEW es, Fresh(k, es),
         NEW i \in Ids, i[1] = k, NEW n \in At(k, es, i[2])
  PROVE  \E m \in DOMAIN batch[k] :
           /\ es[n] = Entry(k, batch[k][m]) /\ batch[k][m] \in Record[k]
           /\ IdOf(k, batch[k][m]) = i /\ batch[k][m] \in since[i]
           /\ Same(k, batch[k][m], Read(k, es[n]))
  <1>1. n \in DOMAIN es /\ KeyIn(k, es[n]) = i[2]
    BY DEF At
  <1>2. PICK m \in DOMAIN batch[k] : es[n] = Entry(k, batch[k][m])
    BY <1>1 DEF Fresh
  <1>3. batch[k][m] \in Record[k]
    BY BatchIs, EntriesIs
  <1>4. KeyOf(k, batch[k][m]) = i[2]
    BY <1>1, <1>2, <1>3, KeyReadBack DEF Typed
  <1>5. IdOf(k, batch[k][m]) = i
    BY <1>4, IdIs
  <1>6. batch[k][m] \in since[i]
    BY <1>5 DEF HistoryInv
  <1>7. Same(k, batch[k][m], Read(k, es[n]))
    BY <1>2, <1>3, RowReadBack DEF Typed
  <1> QED BY <1>2, <1>3, <1>5, <1>6, <1>7

\* FoundInv survives an append, whole or stopped.
LEMMA GrownFoundInv ==
  ASSUME Bounds, FilesInv, HistoryInv, FoundInv, store = "csv", at > 0,
         UNCHANGED <<store, kept, since>>,
         NEW k \in Kinds, NEW es, Grows(k, es)
  PROVE  FoundInv'
  <1> SUFFICES ASSUME NEW i \in Ids
               PROVE  /\ kept[i] # None => Found(i)' # {}
                      /\ \A x \in Found(i)' : Stands(i, x)'
    BY DEF FoundInv
  <1>1. \A x : Stands(i, x) => Stands(i, x)'
    BY Still DEF Stands
  <1>2. Typed
    BY DEF Bounds, Typed
  <1>3. (kept[i] # None => Found(i) # {}) /\ \A x \in Found(i) : Stands(i, x)
    BY DEF FoundInv
  <1>4. CASE i[1] # k
    BY <1>1, <1>3, <1>4, GrownOthers
  <1>5. CASE i[1] = k
    <2>1. kept[i] # None => Found(i)' # {}
      BY <1>2, <1>3, <1>5, GrownFound
    <2>2. ASSUME NEW x \in Found(i)' PROVE Stands(i, x)'
      <3>1. CASE x \in Found(i)
        BY <1>1, <1>3, <3>1
      <3>2. CASE x \notin Found(i)
        <4>1. PICK n \in At(k, es, i[2]) : x = Read(k, es[n])
          BY <1>2, <1>5, <2>2, <3>2, GrownFound
        <4>2. Fresh(k, es)
          BY DEF Grows
        <4>3. \E r \in since[i] : Same(k, r, x)
          BY <1>2, <1>5, <4>1, <4>2, GrownRow
        <4>4. Stands(i, x)
          BY <1>5, <4>3 DEF Stands
        <4> QED BY <1>1, <4>4
      <3> QED BY <3>1, <3>2
    <2> QED BY <2>1, <2>2
  <1> QED BY <1>4, <1>5

\* Events and metrics are kinds.
LEMMA UniqueKinds == Unique \subseteq Kinds
  BY KindsAre DEF Unique

\* The keys a store knows of an intact file it has not stopped in are its keys.
LEMMA KnownIs ==
  ASSUME FilesInv, KnownInv, store = "csv", NEW k \in Unique
  PROVE  /\ KnownKeys(k) \subseteq RowKeys(k)
         /\ Readable(k) /\ k \notin stopped => RowKeys(k) \subseteq KnownKeys(k)
  <1>1. CASE known[k] # None
    BY <1>1 DEF KnownInv, KnownKeys
  <1>2. CASE known[k] = None
    <2>1. KnownKeys(k) = KeysInFile(k)
      BY <1>2 DEF KnownKeys
    <2>2. files[k].headed => KeysInFile(k) = RowKeys(k)
      BY DEF KeysInFile, RowKeys, KeysOf
    <2>3. ~files[k].headed => KeysInFile(k) = {}
      BY DEF KeysInFile
    <2>4. ~files[k].there => RowKeys(k) = {}
      <3>1. ~files[k].there => files[k].rows = <<>>
        BY UniqueKinds DEF FilesInv
      <3> QED BY <3>1 DEF RowKeys, KeysOf
    <2> QED BY <2>1, <2>2, <2>3, <2>4 DEF Readable
  <1> QED BY <1>1, <1>2

\* An append makes no unreadable file readable.
LEMMA GrownReadable ==
  ASSUME store = "csv", UNCHANGED store, NEW k \in Kinds, NEW es, Grows(k, es)
  PROVE  /\ Readable(k)' => Readable(k)
         /\ \A j \in Kinds \ {k} : Readable(j)' <=> Readable(j)
  <1>1. Readable(k)' => Readable(k)
    BY DEF Grows, Readable
  <1>2. \A j \in Kinds \ {k} : Readable(j)' <=> Readable(j)
    BY DEF Grows, Readable
  <1> QED BY <1>1, <1>2

\* The kinds a step does not write are remembered as before.
LEMMA KnownOthers ==
  ASSUME FilesInv, KnownInv, store = "csv", UNCHANGED store,
         NEW k \in Kinds, NEW es, Grows(k, es),
         NEW j \in Unique, j # k, known'[j] = known[j], j \in stopped' <=> j \in stopped,
         known'[j] # None
  PROVE  /\ known'[j] \subseteq RowKeys(j)'
         /\ Readable(j)' /\ j \notin stopped' => RowKeys(j)' \subseteq known'[j]
  <1>1. RowKeys(j)' = RowKeys(j) /\ (Readable(j)' <=> Readable(j))
    BY UniqueKinds, GrownKeys, GrownReadable
  <1> QED BY <1>1 DEF KnownInv

-----------------------------------------------------------------------------
\* AppendKind.

\* What AppendKind does.
LEMMA AppendIs ==
  ASSUME Bounds, HistoryInv, FilesInv, KnownInv, AppendKind
  PROVE  /\ Kind \in Kinds /\ store = "csv" /\ at \in 1..5 /\ at' = at + 1
         /\ UNCHANGED <<store, calls, opens, tables, batch, kept, since, stopped>>
         /\ \E es \in ToAppend(Kind) : Grows(Kind, es)
         /\ DOMAIN known' = Kinds /\ \A j \in Kinds \ {Kind} : known'[j] = known[j]
         /\ Kind \in Unique => known'[Kind] =
              IF batch[Kind] = <<>> THEN known[Kind]
              ELSE KnownKeys(Kind) \cup {KeyIn(Kind, EntriesOf(Kind)[n]) : n \in DOMAIN batch[Kind]}
  <1>1. Kind \in Kinds /\ store = "csv" /\ at \in 1..5
    BY OrderIs DEF AppendKind, Appending, Kind
  <1>2. at' = at + 1 /\ UNCHANGED <<store, calls, opens, tables, batch, kept, since, stopped>>
    BY DEF AppendKind, bounds
  <1>3. known' = IF Kind \notin Unique \/ batch[Kind] = <<>> THEN known
                 ELSE [known EXCEPT ![Kind] = KnownKeys(Kind) \cup
                         {KeyIn(Kind, EntriesOf(Kind)[n]) : n \in DOMAIN batch[Kind]}]
    BY DEF AppendKind
  <1>4. DOMAIN known = Kinds
    BY DEF FilesInv
  <1>5. DOMAIN known' = Kinds /\ \A j \in Kinds \ {Kind} : known'[j] = known[j]
    BY <1>3, <1>4
  <1>6. Kind \in Unique => known'[Kind] =
              IF batch[Kind] = <<>> THEN known[Kind]
              ELSE KnownKeys(Kind) \cup {KeyIn(Kind, EntriesOf(Kind)[n]) : n \in DOMAIN batch[Kind]}
    BY <1>1, <1>3, <1>4
  <1> QED BY <1>1, <1>2, <1>5, <1>6, AppendGrows

\* The keys remembered are those of the file.
LEMMA AppendKnown ==
  ASSUME Bounds, HistoryInv, FilesInv, KnownInv, AppendKind
  PROVE  KnownInv'
  <1>0. PICK k \in Kinds : k = Kind
    BY AppendIs DEF IInv
  <1>1. /\ k \in Kinds /\ store = "csv"
        /\ UNCHANGED <<store, batch, stopped>>
        /\ DOMAIN known' = Kinds /\ \A j \in Kinds \ {k} : known'[j] = known[j]
        /\ k \in Unique => known'[k] =
             IF batch[k] = <<>> THEN known[k]
             ELSE KnownKeys(k) \cup {KeyIn(k, EntriesOf(k)[n]) : n \in DOMAIN batch[k]}
    BY <1>0, AppendIs
  <1>2. PICK es \in ToAppend(k) : Grows(k, es)
    BY <1>0, AppendIs
  <1>3. Typed /\ Batched(k)
    BY <1>1, BatchIs DEF Bounds, Typed
  <1> SUFFICES ASSUME NEW j \in Unique, known'[j] # None
               PROVE  /\ known'[j] \subseteq RowKeys(j)'
                      /\ Readable(j)' /\ j \notin stopped' => RowKeys(j)' \subseteq known'[j]
    BY DEF KnownInv
  <1>4. CASE j # k
    BY <1>1, <1>2, <1>4, UniqueKinds, KnownOthers
  <1>5. CASE j = k
    <2>1. /\ RowKeys(k)' = RowKeys(k) \cup KeysOf(k, es)
          /\ Readable(k)' => Readable(k)
      BY <1>1, <1>2, GrownKeys, GrownReadable
    <2>2. Fresh(k, es)
      BY <1>2 DEF Grows
    <2>3. CASE batch[k] = <<>>
      <3>1. KeysOf(k, es) = {}
        <4>1. DOMAIN batch[k] = {}
          BY <2>3
        <4> QED BY <2>2, <4>1 DEF Fresh, KeysOf
      <3> QED BY <1>1, <1>5, <2>1, <2>3, <3>1 DEF KnownInv
    <2>4. CASE batch[k] # <<>>
      <3> DEFINE keys == {KeyIn(k, EntriesOf(k)[n]) : n \in DOMAIN batch[k]}
      <3>1. known'[k] = KnownKeys(k) \cup keys
        BY <1>1, <1>5, <2>4
      <3>2. keys \subseteq KnownKeys(k) \cup KeysOf(k, es)
        <4>1. \A n \in DOMAIN batch[k] : KeyOf(k, batch[k][n]) \in KnownKeys(k) \cup KeysOf(k, es)
          BY <1>1, <1>2, <1>3, <1>5, AppendedAre
        <4>2. \A n \in DOMAIN batch[k] : KeyIn(k, EntriesOf(k)[n]) = KeyOf(k, batch[k][n])
          BY <1>1, <1>3, EntriesIs
        <4> QED BY <4>1, <4>2
      <3>3. KeysOf(k, es) \subseteq keys
        <4>1. \A n \in DOMAIN batch[k] : EntriesOf(k)[n] = Entry(k, batch[k][n])
          BY <1>1, <1>3, EntriesIs
        <4>2. \A m \in DOMAIN es : \E n \in DOMAIN batch[k] : es[m] = EntriesOf(k)[n]
          BY <2>2, <4>1 DEF Fresh
        <4> QED BY <4>2 DEF KeysOf
      <3> HIDE DEF keys
      <3>4. /\ KnownKeys(k) \subseteq RowKeys(k)
            /\ Readable(k) /\ k \notin stopped => RowKeys(k) \subseteq KnownKeys(k)
        BY <1>1, <1>5, KnownIs
      <3>5. known'[k] \subseteq RowKeys(k)'
        BY <2>1, <3>1, <3>2, <3>4
      <3>6. Readable(k)' /\ k \notin stopped' => RowKeys(k)' \subseteq known'[k]
        BY <1>1, <2>1, <3>1, <3>3, <3>4
      <3> QED BY <1>5, <3>5, <3>6
    <2> QED BY <2>3, <2>4
  <1> QED BY <1>4, <1>5

\* The kind appended has the records of the batch; the others stay as they were.
LEMMA AppendDone ==
  ASSUME IInv, AppendKind
  PROVE  DoneInv'
  <1>0. PICK k \in Kinds : k = Kind
    BY AppendIs DEF IInv
  <1>1. /\ k \in Kinds /\ store = "csv" /\ at \in 1..5 /\ at' = at + 1
        /\ UNCHANGED <<store, batch, kept, since>>
    BY <1>0, AppendIs DEF IInv
  <1>2. PICK es \in ToAppend(k) : Grows(k, es)
    BY <1>0, AppendIs DEF IInv
  <1>3. Typed /\ Batched(k)
    BY <1>1, BatchIs DEF IInv, Bounds, Typed
  <1>4. k = Order[at]
    BY <1>0 DEF Kind
  <1>5. IdsInBatch' = IdsInBatch /\ \A i : LastOf(i)' = LastOf(i)
    BY <1>1 DEF IdsInBatch, LastOf
  <1>6. \A i, x : Same(i[1], LastOf(i), x)' <=> Same(i[1], LastOf(i), x)
    BY <1>1, <1>5 DEF Same
  <1> SUFFICES ASSUME NEW j \in 1..at, NEW i \in IdsInBatch, i[1] = Order[j]
               PROVE  Found(i)' # {} /\ \A x \in Found(i)' : Same(i[1], LastOf(i), x)
    <2>1. at' - 1 = at /\ store' = "csv"
      BY <1>1
    <2>2. ASSUME NEW j \in 1..at, NEW i \in IdsInBatch', i[1] = Order[j]
          PROVE  Found(i)' # {} /\ \A x \in Found(i)' : Same(i[1], LastOf(i), x)'
      BY <1>5, <1>6, <2>2
    <2> QED BY <2>1, <2>2 DEF DoneInv
  <1>7. i \in Ids
    BY DEF IdsInBatch
  <1>8. CASE i[1] # k
    <2>1. j \in 1..(at - 1)
      BY <1>1, <1>4, <1>8
    <2>2. Found(i) # {} /\ \A x \in Found(i) : Same(i[1], LastOf(i), x)
      BY <1>1, <2>1 DEF IInv, DoneInv
    <2> QED BY <1>1, <1>2, <1>7, <1>8, <2>2, GrownOthers
  <1>9. CASE i[1] = k
    <2>1. PICK l \in DOMAIN batch[k] :
            /\ LastOf(i) = batch[k][l] /\ IdOf(k, batch[k][l]) = i /\ batch[k][l] \in Record[k]
            /\ \A m \in DOMAIN batch[k] : IdOf(k, batch[k][m]) = i => m <= l
      BY <1>9, LastIs DEF IInv
    <2>2. KeyOf(k, batch[k][l]) = i[2]
      BY <1>7, <2>1, IdIs
    <2>3. /\ k \notin Unique => es = EntriesOf(k)
          /\ k \in Unique => i[2] \in KnownKeys(k) \cup KeysOf(k, es)
      BY <1>1, <1>2, <1>3, <2>1, <2>2, AppendedAre
    <2>4. k \notin Unique =>
            /\ DOMAIN es = DOMAIN batch[k]
            /\ \A n \in DOMAIN batch[k] : /\ es[n] = Entry(k, batch[k][n])
                                          /\ KeyIn(k, es[n]) = KeyOf(k, batch[k][n])
      BY <1>1, <1>3, <2>3, EntriesIs
    <2>5. i[2] \in RowKeys(k) \cup KeysOf(k, es)
      <3>1. CASE k \in Unique
        BY <1>1, <2>3, <3>1, KnownIs DEF IInv
      <3>2. CASE k \notin Unique
        BY <2>1, <2>2, <2>4, <3>2 DEF KeysOf
      <3> QED BY <3>1, <3>2
    <2>6. FilesInv /\ HistoryInv /\ FoundInv /\ at > 0 /\ Fresh(k, es)
      BY <1>1, <1>2 DEF IInv, Grows
    <2>7. Found(i)' # {}
      BY <1>1, <1>2, <1>3, <1>7, <1>9, <2>5, <2>6, GrownFound
    <2>8. ASSUME NEW x \in Found(i)' PROVE Same(k, LastOf(i), x)
      <3>1. \/ x \in Found(i) /\ (k \in Unique \/ i[2] \notin KeysOf(k, es))
            \/ \E n \in At(k, es, i[2]) :
                 /\ x = Read(k, es[n])
                 /\ k \in Unique \/ \A m \in At(k, es, i[2]) : m <= n
        BY <1>1, <1>2, <1>3, <1>7, <1>9, <2>6, <2>8, GrownFound
      <3>2. CASE k \in Unique
        <4>1. \E r \in Record[k] : IdOf(k, r) = i /\ Same(k, r, x)
          <5>1. CASE x \in Found(i)
            BY <1>7, <1>9, <2>6, <5>1 DEF FoundInv, Stands, HistoryInv
          <5>2. CASE \E n \in At(k, es, i[2]) : x = Read(k, es[n])
            BY <1>1, <1>3, <1>7, <1>9, <2>6, <5>2, GrownRow
          <5> QED BY <3>1, <5>1, <5>2
        <4> QED BY <1>7, <1>9, <2>1, <3>2, <4>1, OneRecord
      <3>3. CASE k \notin Unique
        <4>1. i[2] \in KeysOf(k, es)
          BY <2>1, <2>2, <2>4, <3>3 DEF KeysOf
        <4>2. PICK n \in At(k, es, i[2]) :
                x = Read(k, es[n]) /\ \A m \in At(k, es, i[2]) : m <= n
          BY <3>1, <3>3, <4>1
        <4>3. l \in At(k, es, i[2])
          BY <2>1, <2>2, <2>4, <3>3 DEF At
        <4>4. n \in DOMAIN batch[k] /\ IdOf(k, batch[k][n]) = i
          <5>1. n \in DOMAIN batch[k] /\ KeyOf(k, batch[k][n]) = i[2]
            BY <2>4, <3>3, <4>2 DEF At
          <5> QED BY <1>7, <1>9, <5>1, IdIs
        <4>5. DOMAIN batch[k] \subseteq Nat
          BY <1>1, <1>3, EntriesIs
        <4>6. n = l
          <5>1. n \in Nat /\ l \in Nat /\ n <= l /\ l <= n
            BY <2>1, <4>2, <4>3, <4>4, <4>5
          <5> QED BY <5>1
        <4>7. x = Read(k, Entry(k, batch[k][l]))
          BY <2>1, <2>4, <3>3, <4>2, <4>6
        <4> QED BY <1>1, <1>3, <2>1, <4>7, RowReadBack DEF Typed
      <3> QED BY <3>2, <3>3
    <2> QED BY <1>9, <2>7, <2>8
  <1> QED BY <1>8, <1>9

\* AppendKind preserves the invariant.
LEMMA AppendStep ==
  ASSUME IInv, AppendKind
  PROVE  IInv'
  <1>1. /\ Kind \in Kinds /\ store = "csv" /\ at \in 1..5 /\ at' = at + 1
        /\ UNCHANGED <<store, calls, opens, tables, batch, kept, since, stopped>>
        /\ DOMAIN known' = Kinds
    BY AppendIs DEF IInv
  <1>2. PICK es : Grows(Kind, es)
    BY AppendIs DEF IInv
  <1>3. Bounds'
    BY <1>1, OrderIs DEF IInv, Bounds
  <1>4. HistoryInv'
    BY <1>1 DEF IInv, HistoryInv
  <1>5. FilesInv'
    BY <1>1, <1>2, GrownFiles DEF IInv
  <1>6. KnownInv'
    BY AppendKnown DEF IInv
  <1>7. FoundInv'
    BY <1>1, <1>2, GrownFoundInv DEF IInv
  <1>8. DoneInv'
    BY AppendDone
  <1> QED BY <1>3, <1>4, <1>5, <1>6, <1>7, <1>8 DEF IInv

-----------------------------------------------------------------------------
\* StopAppend.

\* StopAppend preserves the invariant.
LEMMA StopStep ==
  ASSUME IInv, StopAppend
  PROVE  IInv'
  <1>1. PICK k \in Kinds : k = Kind
    BY OrderIs DEF StopAppend, Appending, Kind
  <1>2. /\ store = "csv" /\ at > 0 /\ at' = 0 /\ stopped' = stopped \cup {k}
        /\ UNCHANGED <<store, calls, opens, tables, batch, kept, since>>
    <2>1. at > 0
      BY OrderIs DEF StopAppend, Appending
    <2> QED BY <1>1, <2>1 DEF StopAppend, Appending, bounds
  <1>3. known' = IF k \in Unique THEN [known EXCEPT ![k] = KnownKeys(k)] ELSE known
    BY <1>1 DEF StopAppend
  <1>4. PICK es : Grows(k, es)
    BY <1>1, StopGrows DEF IInv
  <1>5. DOMAIN known' = Kinds /\ \A j \in Kinds \ {k} : known'[j] = known[j]
    BY <1>3 DEF IInv, FilesInv
  <1>6. Bounds'
    BY <1>2, OrderIs DEF IInv, Bounds
  <1>7. HistoryInv'
    BY <1>2 DEF IInv, HistoryInv
  <1>8. FilesInv'
    BY <1>2, <1>4, <1>5, GrownFiles DEF IInv
  <1>9. KnownInv'
    <2> SUFFICES ASSUME NEW j \in Unique, known'[j] # None
                 PROVE  /\ known'[j] \subseteq RowKeys(j)'
                        /\ Readable(j)' /\ j \notin stopped' => RowKeys(j)' \subseteq known'[j]
      BY DEF KnownInv
    <2>1. CASE j # k
      BY <1>2, <1>4, <1>5, <2>1, UniqueKinds, KnownOthers DEF IInv
    <2>2. CASE j = k
      <3>1. known'[k] = KnownKeys(k)
        BY <1>3, <2>2 DEF IInv, FilesInv
      <3>2. KnownKeys(k) \subseteq RowKeys(k)
        BY <1>2, <2>2, KnownIs DEF IInv
      <3>3. RowKeys(k) \subseteq RowKeys(k)'
        BY <1>2, <1>4, GrownKeys DEF IInv
      <3> QED BY <1>2, <2>2, <3>1, <3>2, <3>3
    <2> QED BY <2>1, <2>2
  <1>10. FoundInv'
    BY <1>2, <1>4, GrownFoundInv DEF IInv
  <1>11. DoneInv'
    BY <1>2 DEF DoneInv
  <1> QED BY <1>6, <1>7, <1>8, <1>9, <1>10, <1>11 DEF IInv

-----------------------------------------------------------------------------
\* The steps that write nothing.

\* FilesInv, when no file is written.
LEMMA FilesStay ==
  ASSUME FilesInv, UNCHANGED <<store, files>>, DOMAIN known' = Kinds
  PROVE  FilesInv'
  BY Still DEF FilesInv

\* KnownInv, when no file is written.
LEMMA KnownStays ==
  ASSUME KnownInv, UNCHANGED <<store, files, known, stopped>>
  PROVE  KnownInv'
  <1>1. \A k : RowKeys(k)' = RowKeys(k) /\ (Readable(k)' <=> Readable(k))
    BY RowKeysNext DEF RowKeys, Readable
  <1> QED BY <1>1 DEF KnownInv

\* What is found, when nothing is written.
LEMMA FoundStays ==
  ASSUME UNCHANGED <<store, files, tables>>
  PROVE  \A i : Found(i)' = Found(i)
  BY Still DEF Found, KeyIn, Read

\* FoundInv, when nothing is written.
LEMMA FoundInvStays ==
  ASSUME FoundInv, UNCHANGED <<store, files, tables, kept, since>>
  PROVE  FoundInv'
  <1>1. \A i, x : Stands(i, x) => Stands(i, x)'
    BY Still DEF Stands
  <1> QED BY <1>1, FoundStays DEF FoundInv

\* MapRaises and RollBack preserve the invariant.
LEMMA RaiseStep ==
  ASSUME IInv, at' = 0,
         UNCHANGED <<store, calls, opens, files, known, tables, batch, kept, since, stopped>>
  PROVE  IInv'
  <1>1. Bounds'
    BY OrderIs DEF IInv, Bounds
  <1>2. HistoryInv'
    BY DEF IInv, HistoryInv
  <1>3. FilesInv'
    BY FilesStay DEF IInv, FilesInv
  <1>4. KnownInv'
    BY KnownStays DEF IInv
  <1>5. FoundInv'
    BY FoundInvStays DEF IInv
  <1>6. DoneInv'
    BY DEF DoneInv
  <1> QED BY <1>1, <1>2, <1>3, <1>4, <1>5, <1>6 DEF IInv

\* Save preserves the invariant.
LEMMA SaveStep ==
  ASSUME IInv, Save
  PROVE  IInv'
  <1>1. /\ calls < MaxCalls /\ calls' = calls + 1 /\ batch' \in Batches /\ at' = 1
        /\ UNCHANGED <<store, files, known, tables, opens, kept, stopped>>
    BY DEF Save, disk
  <1>2. \A i \in Ids : since'[i] =
          since[i] \cup {r \in Record[i[1]] : IdOf(i[1], r) = i
                           /\ \E n \in DOMAIN batch'[i[1]] : batch'[i[1]][n] = r}
    BY DEF Save
  <1>3. Bounds'
    BY <1>1, StoresAssumption, OrderIs DEF IInv, Bounds
  <1>4. HistoryInv'
    <2>1. ASSUME NEW i \in Ids, NEW r \in since'[i] \cup ({kept'[i]} \ {None})
          PROVE  r \in Record[i[1]] /\ IdOf(i[1], r) = i
      BY <1>1, <1>2, <2>1 DEF IInv, HistoryInv
    <2>2. ASSUME NEW k \in Kinds, NEW n \in DOMAIN batch'[k]
          PROVE  batch'[k][n] \in since'[IdOf(k, batch'[k][n])]
      <3> DEFINE r == batch'[k][n]
                 i == IdOf(k, r)
      <3>1. batch'[k] \in Seq(Record[k])
        BY <1>1, StoresAssumption
      <3>2. r \in Record[k]
        BY <3>1
      <3>3. i \in Ids /\ i[1] = k
        BY <3>2, IdIs DEF IdOf
      <3> QED BY <1>2, <3>2, <3>3
    <2> QED BY <1>1, <2>1, <2>2 DEF HistoryInv
  <1>5. FilesInv'
    BY <1>1, FilesStay DEF IInv, FilesInv
  <1>6. KnownInv'
    BY <1>1, KnownStays DEF IInv
  <1>7. FoundInv'
    <2>1. \A i \in Ids : \A x : Stands(i, x) => Stands(i, x)'
      BY <1>1, <1>2, Still DEF Stands
    <2> QED BY <1>1, <2>1, FoundStays DEF IInv, FoundInv
  <1>8. DoneInv'
    BY <1>1 DEF DoneInv
  <1> QED BY <1>3, <1>4, <1>5, <1>6, <1>7, <1>8 DEF IInv

\* When a call returns with the last records of its batch found, they are kept.
LEMMA ReturnsKeeps ==
  ASSUME HistoryInv, FoundInv, UNCHANGED <<store, batch>>, at' = 0, Returns,
         \A i \in IdsInBatch : Found(i)' # {} /\ \A x \in Found(i)' : Same(i[1], LastOf(i), x),
         \A i \in Ids \ IdsInBatch : Found(i)' = Found(i)
  PROVE  HistoryInv' /\ FoundInv'
  <1>1. /\ \A i \in IdsInBatch : kept'[i] = LastOf(i) /\ since'[i] = {}
        /\ \A i \in Ids \ IdsInBatch : kept'[i] = kept[i] /\ since'[i] = since[i]
        /\ IdsInBatch \subseteq Ids
    BY DEF Returns, IdsInBatch
  <1>2. \A i \in IdsInBatch :
          LastOf(i) \in Record[i[1]] /\ IdOf(i[1], LastOf(i)) = i /\ LastOf(i) # None
    <2>1. \A i \in IdsInBatch : LastOf(i) \in Record[i[1]] /\ IdOf(i[1], LastOf(i)) = i
      BY LastIs
    <2> QED BY <1>1, <2>1, IdIs, StoresAssumption
  <1>3. HistoryInv'
    <2>1. ASSUME NEW i \in Ids, NEW r \in since'[i] \cup ({kept'[i]} \ {None})
          PROVE  r \in Record[i[1]] /\ IdOf(i[1], r) = i
      BY <1>1, <1>2, <2>1 DEF HistoryInv
    <2> QED BY <2>1 DEF HistoryInv
  <1>4. FoundInv'
    <2> SUFFICES ASSUME NEW i \in Ids
                 PROVE  /\ kept'[i] # None => Found(i)' # {}
                        /\ \A x \in Found(i)' : Stands(i, x)'
      BY DEF FoundInv
    <2>1. CASE i \in IdsInBatch
      <3>1. PICK r \in Record[i[1]] : r = LastOf(i)
        BY <1>2, <2>1
      <3>2. \A x \in Found(i)' : Same(i[1], r, x)'
        BY <2>1, <3>1, Still
      <3>3. kept'[i] = r /\ r # None
        BY <1>1, <1>2, <2>1, <3>1
      <3>4. \A x \in Found(i)' : Stands(i, x)'
        BY <3>2, <3>3 DEF Stands
      <3> QED BY <2>1, <3>4
    <2>2. CASE i \notin IdsInBatch
      <3>1. \A x : Stands(i, x) => Stands(i, x)'
        BY <1>1, <2>2, Still DEF Stands
      <3> QED BY <1>1, <2>2, <3>1 DEF FoundInv
    <2> QED BY <2>1, <2>2
  <1> QED BY <1>3, <1>4

\* ReturnCsv preserves the invariant.
LEMMA ReturnCsvStep ==
  ASSUME IInv, ReturnCsv
  PROVE  IInv'
  <1>1. /\ store = "csv" /\ at = 6 /\ at' = 0 /\ Returns
        /\ UNCHANGED <<store, calls, opens, files, known, tables, batch, stopped>>
    BY OrderIs DEF ReturnCsv, bounds, disk
  <1>2. \A i \in IdsInBatch : Found(i) # {} /\ \A x \in Found(i) : Same(i[1], LastOf(i), x)
    <2> SUFFICES ASSUME NEW i \in IdsInBatch
                 PROVE  Found(i) # {} /\ \A x \in Found(i) : Same(i[1], LastOf(i), x)
      OBVIOUS
    <2>1. PICK j \in 1..5 : Order[j] = i[1]
      BY OrderIs, IdIs DEF IdsInBatch
    <2>2. j \in 1..(at - 1)
      BY <1>1
    <2> QED BY <1>1, <2>1, <2>2 DEF IInv, DoneInv
  <1>3. \A i : Found(i)' = Found(i)
    BY <1>1, FoundStays
  <1>4. HistoryInv' /\ FoundInv'
    BY <1>1, <1>2, <1>3, ReturnsKeeps DEF IInv
  <1>5. Bounds'
    BY <1>1, OrderIs DEF IInv, Bounds
  <1>6. FilesInv'
    BY <1>1, FilesStay DEF IInv, FilesInv
  <1>7. KnownInv'
    BY <1>1, KnownStays DEF IInv
  <1>8. DoneInv'
    BY <1>1 DEF DoneInv
  <1> QED BY <1>4, <1>5, <1>6, <1>7, <1>8 DEF IInv

-----------------------------------------------------------------------------
\* Commit.

\* Of the ids in the batch a table has the last record, of the others what it had.
LEMMA PutIs ==
  ASSUME HistoryInv, Typed, store # "csv", UNCHANGED store, NEW i \in Ids,
         tables'[i[1]] = Put(i[1])
  PROVE  /\ i \in IdsInBatch =>
              Found(i)' # {} /\ \A x \in Found(i)' : Same(i[1], LastOf(i), x)
         /\ i \notin IdsInBatch => Found(i)' = Found(i)
  <1>1. PICK k \in Kinds : k = i[1]
    BY IdIs
  <1>2. /\ Found(i) = {Read(k, e) : e \in {x \in tables[k] : KeyIn(k, x) = i[2]}}
        /\ Found(i)' = {Read(k, e) : e \in {x \in Put(k) : KeyIn(k, x) = i[2]}}
    <2>1. \A k2, e : Read(k2, e)' = Read(k2, e) /\ KeyIn(k2, e)' = KeyIn(k2, e)
      BY Still
    <2>2. store' # "csv"
      OBVIOUS
    <2>3. Found(i)' = {Read(i[1], e) : e \in {x \in tables'[i[1]] : KeyIn(i[1], x) = i[2]}}
      BY <2>1, <2>2 DEF Found
    <2> QED BY <1>1, <2>3 DEF Found
  <1>3. Batched(k)
    BY BatchIs
  <1>4. \A n \in DOMAIN batch[k] :
          /\ batch[k][n] \in Record[k] /\ EntriesOf(k)[n] = Entry(k, batch[k][n])
          /\ KeyIn(k, EntriesOf(k)[n]) = KeyOf(k, batch[k][n])
          /\ IdOf(k, batch[k][n]) = i <=> KeyOf(k, batch[k][n]) = i[2]
    BY <1>1, <1>3, EntriesIs, IdIs
  <1>5. \A e : e \in Put(k) <=>
          \/ e \in tables[k] /\ \A n \in DOMAIN batch[k] : KeyOf(k, batch[k][n]) # KeyIn(k, e)
          \/ \E m \in DOMAIN batch[k] :
               /\ e = EntriesOf(k)[m]
               /\ \A j \in DOMAIN batch[k] :
                    KeyOf(k, batch[k][j]) = KeyOf(k, batch[k][m]) => j <= m
    BY DEF Put
  <1>6. CASE i \in IdsInBatch
    <2>1. PICK l \in DOMAIN batch[k] :
            /\ LastOf(i) = batch[k][l] /\ IdOf(k, batch[k][l]) = i
            /\ \A m \in DOMAIN batch[k] : IdOf(k, batch[k][m]) = i => m <= l
      BY <1>1, <1>6, LastIs
    <2>2. EntriesOf(k)[l] \in Put(k) /\ KeyIn(k, EntriesOf(k)[l]) = i[2]
      BY <1>4, <1>5, <2>1
    <2>3. ASSUME NEW e \in Put(k), KeyIn(k, e) = i[2]
          PROVE  e = EntriesOf(k)[l]
      <3>1. PICK m \in DOMAIN batch[k] :
              /\ e = EntriesOf(k)[m]
              /\ \A j \in DOMAIN batch[k] :
                   KeyOf(k, batch[k][j]) = KeyOf(k, batch[k][m]) => j <= m
        BY <1>4, <1>5, <2>1, <2>3
      <3>2. m <= l /\ l <= m
        BY <1>4, <2>1, <2>3, <3>1
      <3>3. m \in Nat /\ l \in Nat
        BY <1>3, EntriesIs
      <3> QED BY <3>1, <3>2, <3>3
    <2>4. Same(k, LastOf(i), Read(k, EntriesOf(k)[l]))
      BY <1>4, <2>1, RowReadBack DEF Typed
    <2> QED BY <1>1, <1>2, <1>6, <2>2, <2>3, <2>4
  <1>7. CASE i \notin IdsInBatch
    <2>1. \A n \in DOMAIN batch[k] : KeyOf(k, batch[k][n]) # i[2]
      BY <1>1, <1>4, <1>7 DEF IdsInBatch
    <2>2. \A e : KeyIn(k, e) = i[2] => (e \in Put(k) <=> e \in tables[k])
      BY <1>4, <1>5, <2>1
    <2> QED BY <1>2, <1>7, <2>2
  <1> QED BY <1>6, <1>7

\* Commit preserves the invariant.
LEMMA CommitStep ==
  ASSUME IInv, Commit
  PROVE  IInv'
  <1>1. /\ store # "csv" /\ at' = 0 /\ tables' = [k \in Kinds |-> Put(k)] /\ Returns
        /\ UNCHANGED <<store, calls, opens, files, known, batch, stopped>>
    BY DEF Commit, bounds, disk
  <1>2. Typed
    BY DEF IInv, Bounds, Typed
  <1>3. \A i \in Ids : tables'[i[1]] = Put(i[1])
    BY <1>1, IdIs
  <1>4. IdsInBatch \subseteq Ids
    BY DEF IdsInBatch
  <1>5. /\ \A i \in IdsInBatch :
             Found(i)' # {} /\ \A x \in Found(i)' : Same(i[1], LastOf(i), x)
        /\ \A i \in Ids \ IdsInBatch : Found(i)' = Found(i)
    BY <1>1, <1>2, <1>3, <1>4, PutIs DEF IInv
  <1>6. HistoryInv' /\ FoundInv'
    BY <1>1, <1>5, ReturnsKeeps DEF IInv
  <1>7. Bounds'
    BY <1>1, OrderIs DEF IInv, Bounds
  <1>8. FilesInv'
    BY <1>1, FilesStay DEF IInv, FilesInv
  <1>9. KnownInv'
    BY <1>1, KnownStays DEF IInv
  <1>10. DoneInv'
    BY <1>1 DEF DoneInv
  <1> QED BY <1>6, <1>7, <1>8, <1>9, <1>10 DEF IInv

\* Open preserves the invariant.
LEMMA OpenStep ==
  ASSUME IInv, Open
  PROVE  IInv'
  <1>1. /\ at = 0 /\ opens < MaxOpens /\ opens' = opens + 1
        /\ known' = [k \in Kinds |-> None] /\ stopped' = {}
        /\ UNCHANGED <<store, files, batch, at, calls>>
    BY DEF Open
  <1>2. ASSUME store # "memory" PROVE HistoryInv' /\ FoundInv'
    <2>1. UNCHANGED <<tables, kept, since>>
      BY <1>2 DEF Open
    <2>2. HistoryInv' /\ FoundInv'
      BY <1>1, <2>1, FoundInvStays DEF IInv, HistoryInv
    <2> QED BY <2>2
  <1>3. ASSUME store = "memory" PROVE HistoryInv' /\ FoundInv'
    <2>1. /\ tables' = [k \in Kinds |-> {}]
          /\ kept' = [i \in Ids |-> None] /\ since' = [i \in Ids |-> {}]
      BY <1>3 DEF Open
    <2>2. HistoryInv'
      BY <1>1, <2>1 DEF IInv, HistoryInv
    <2>3. \A i \in Ids : Found(i)' = {}
      <3>1. \A i \in Ids : tables'[i[1]] = {}
        BY <2>1, IdIs
      <3>2. store' # "csv"
        BY <1>1, <1>3
      <3> QED BY <3>1, <3>2 DEF Found
    <2>4. FoundInv'
      BY <2>1, <2>3 DEF FoundInv
    <2> QED BY <2>2, <2>4
  <1>4. HistoryInv' /\ FoundInv'
    BY <1>2, <1>3
  <1>5. Bounds'
    BY <1>1, StoresAssumption DEF IInv, Bounds
  <1>6. FilesInv'
    BY <1>1, FilesStay DEF IInv, FilesInv
  <1>7. KnownInv'
    BY <1>1, UniqueKinds DEF KnownInv
  <1>8. DoneInv'
    BY <1>1 DEF DoneInv
  <1> QED BY <1>4, <1>5, <1>6, <1>7, <1>8 DEF IInv

-----------------------------------------------------------------------------
\* Every step.

\* The invariant holds of an empty store.
LEMMA Initial == Init => IInv
  <1> SUFFICES ASSUME Init PROVE IInv
    OBVIOUS
  <1>1. Bounds
    BY StoresAssumption, OrderIs DEF Init, Bounds
  <1>2. HistoryInv
    BY DEF Init, HistoryInv, NoBatch
  <1>3. FilesInv
    <2>1. \A k \in Kinds : NoFile \in File(k)
      BY DEF NoFile, File
    <2> QED BY <2>1 DEF Init, FilesInv, NoFile
  <1>4. KnownInv
    BY UniqueKinds DEF Init, KnownInv
  <1>5. FoundInv
    <2>1. \A i \in Ids : i[1] \in Kinds
      BY IdIs
    <2>2. \A i \in Ids : Found(i) = {}
      <3>1. \A i \in Ids : tables[i[1]] = {} /\ files[i[1]].rows = <<>>
        BY <2>1 DEF Init, NoFile
      <3> QED BY <3>1 DEF Found
    <2> QED BY <2>2 DEF Init, FoundInv
  <1>6. DoneInv
    BY DEF Init, DoneInv
  <1> QED BY <1>1, <1>2, <1>3, <1>4, <1>5, <1>6 DEF IInv

\* Every step preserves the invariant.
LEMMA Steps == IInv /\ [Next]_vars => IInv'
  <1> SUFFICES ASSUME IInv, [Next]_vars PROVE IInv'
    OBVIOUS
  <1>1. CASE Save
    BY <1>1, SaveStep
  <1>2. CASE AppendKind
    BY <1>2, AppendStep
  <1>3. CASE StopAppend
    BY <1>3, StopStep
  <1>4. CASE MapRaises
    BY <1>4, RaiseStep DEF MapRaises, bounds, disk
  <1>5. CASE ReturnCsv
    BY <1>5, ReturnCsvStep
  <1>6. CASE Commit
    BY <1>6, CommitStep
  <1>7. CASE RollBack
    BY <1>7, RaiseStep DEF RollBack, bounds, disk
  <1>8. CASE Open
    BY <1>8, OpenStep
  <1>9. CASE UNCHANGED vars
    <2>1. UNCHANGED <<store, files, known, tables, batch, at, calls, opens, kept, since, stopped>>
      BY <1>9 DEF vars
    <2>2. Bounds' /\ HistoryInv'
      BY <2>1 DEF IInv, Bounds, HistoryInv
    <2>3. FilesInv' /\ KnownInv' /\ FoundInv'
      BY <2>1, FilesStay, KnownStays, FoundInvStays DEF IInv, FilesInv
    <2>4. IdsInBatch' = IdsInBatch /\ \A i : LastOf(i)' = LastOf(i)
      BY <2>1 DEF IdsInBatch, LastOf
    <2>5. \A i, x : Same(i[1], LastOf(i), x)' <=> Same(i[1], LastOf(i), x)
      BY <2>1, <2>4 DEF Same
    <2>6. DoneInv'
      BY <2>1, <2>4, <2>5, FoundStays DEF IInv, DoneInv
    <2> QED BY <2>2, <2>3, <2>6 DEF IInv
  <1> QED BY <1>1, <1>2, <1>3, <1>4, <1>5, <1>6, <1>7, <1>8, <1>9 DEF Next

-----------------------------------------------------------------------------
\* Theorems.

\* The invariant holds of every save, stop, raise and reopening of a store.
THEOREM Invariance == Spec => []IInv
  BY Initial, Steps, PTL DEF Spec

\* The variables keep their types: the rows of a CSV file have the columns of
\* their kind, and a file with a header or rows is there.
THEOREM TypesHold == Spec => []TypeOK
  <1>1. IInv => TypeOK
    <2> SUFFICES ASSUME IInv PROVE TypeOK
      OBVIOUS
    <2>1. ASSUME NEW k \in Kinds
          PROVE  /\ {files[k].there, files[k].headed, files[k].whole} \subseteq BOOLEAN
                 /\ \A n \in DOMAIN files[k].rows : DOMAIN files[k].rows[n] = Columns(k)
                 /\ files[k].headed \/ files[k].rows # <<>> => files[k].there
      <3>1. files[k] \in File(k) /\ (store # "csv" => files[k] = NoFile)
        BY DEF IInv, FilesInv
      <3>2. {files[k].there, files[k].headed, files[k].whole} \subseteq BOOLEAN
        BY <3>1 DEF File
      <3>3. ASSUME NEW n \in DOMAIN files[k].rows PROVE DOMAIN files[k].rows[n] = Columns(k)
        <4>1. store = "csv"
          BY <3>1, <3>3 DEF NoFile
        <4>2. files[k].rows[n] \in Entries(k)
          BY <3>1, <3>3 DEF File
        <4> QED BY <4>1, <4>2 DEF Entries, Entry
      <3>4. files[k].headed \/ files[k].rows # <<>> => files[k].there
        BY DEF IInv, FilesInv
      <3> QED BY <3>2, <3>3, <3>4
    <2>2. \A i \in Ids : kept[i] \in Record[i[1]] \cup {None} /\ since[i] \subseteq Record[i[1]]
      BY DEF IInv, HistoryInv
    <2> QED BY <2>1, <2>2 DEF IInv, Bounds, TypeOK
  <1> QED BY <1>1, Invariance, PTL

\* Whatever save stopped or raised and whichever store was opened since, the
\* reader of a kind finds under an id the record whose save returned last, field
\* by field, or one of a later save that did not return.
THEOREM ReadersFindHolds == Spec => []ReadersFind
  <1>1. IInv => ReadersFind
    BY DEF IInv, FoundInv, Stands, ReadersFind
  <1> QED BY <1>1, Invariance, PTL

\* A step that keeps the rows of a file keeps its doubles.
LEMMA DoublesStay ==
  ASSUME UNCHANGED store, NEW k, files'[k] = files[k]
  PROVE  Doubles(k)' = Doubles(k)
  BY Still DEF Doubles, KeyIn, Read

\* Rows of new keys, each once, add no doubles.
LEMMA GrownDoubles ==
  ASSUME FilesInv, KnownInv, store = "csv", UNCHANGED store, NEW k \in Unique, NEW es,
         Grows(k, es), Readable(k), k \notin stopped
  PROVE  Doubles(k)' = Doubles(k)
  <1> DEFINE rs == files[k].rows
             a == Len(rs)
             b == Len(es)
             all == rs \o es
  <1>1. rs \in Seq(Entries(k)) /\ es \in Seq(Entries(k))
    BY UniqueKinds DEF FilesInv, File, Grows, Fresh
  <1>2. /\ a \in Nat /\ b \in Nat /\ DOMAIN rs = 1..a /\ DOMAIN es = 1..b
        /\ DOMAIN all = 1..(a + b)
        /\ \A n \in 1..a : all[n] = rs[n]
        /\ \A n \in (a + 1)..(a + b) : all[n] = es[n - a] /\ n - a \in 1..b
    BY <1>1
  <1>3. /\ Doubles(k) = {p \in (DOMAIN rs) \X (DOMAIN rs) :
                           p[1] < p[2] /\ KeyIn(k, rs[p[1]]) = KeyIn(k, rs[p[2]])}
        /\ Doubles(k)' = {p \in (DOMAIN all) \X (DOMAIN all) :
                            p[1] < p[2] /\ KeyIn(k, all[p[1]]) = KeyIn(k, all[p[2]])}
    <2>1. files'[k].rows = all
      BY DEF Grows
    <2>2. \A e : KeyIn(k, e)' = KeyIn(k, e)
      BY Still
    <2>3. Doubles(k)' = {p \in (DOMAIN files'[k].rows) \X (DOMAIN files'[k].rows) :
             p[1] < p[2] /\ KeyIn(k, files'[k].rows[p[1]]) = KeyIn(k, files'[k].rows[p[2]])}
      BY <2>2 DEF Doubles
    <2> QED BY <2>1, <2>3 DEF Doubles
  <1>4. /\ \A j \in 1..b : KeyIn(k, es[j]) \notin KeysOf(k, rs)
        /\ \A i, j \in 1..b : i # j => KeyIn(k, es[i]) # KeyIn(k, es[j])
    BY <1>2, KnownIs DEF Grows, Fresh, RowKeys
  <1>5. \A n \in 1..a : KeyIn(k, rs[n]) \in KeysOf(k, rs)
    BY <1>2 DEF KeysOf
  <1> HIDE DEF rs, a, b, all
  <1>6. ASSUME NEW i \in 1..(a + b), NEW j \in 1..(a + b), i < j,
               KeyIn(k, all[i]) = KeyIn(k, all[j])
        PROVE  i \in 1..a /\ j \in 1..a
    <2>1. CASE j \in 1..a
      BY <1>2, <1>6, <2>1
    <2>2. CASE j \notin 1..a
      <3>1. j \in (a + 1)..(a + b)
        BY <1>2, <2>2
      <3>2. all[j] = es[j - a] /\ j - a \in 1..b
        BY <1>2, <3>1
      <3>3. CASE i \in 1..a
        BY <1>2, <1>4, <1>5, <1>6, <3>2, <3>3
      <3>4. CASE i \notin 1..a
        <4>1. i \in (a + 1)..(a + b)
          BY <1>2, <3>4
        <4>2. all[i] = es[i - a] /\ i - a \in 1..b /\ i - a # j - a
          BY <1>2, <1>6, <4>1
        <4> QED BY <1>4, <1>6, <3>2, <4>2
      <3> QED BY <3>3, <3>4
    <2> QED BY <2>1, <2>2
  <1>7. \A p : p \in Doubles(k)' <=> p \in Doubles(k)
    <2> TAKE p
    <2>1. ASSUME p \in Doubles(k)' PROVE p \in Doubles(k)
      <3>1. /\ p \in (1..(a + b)) \X (1..(a + b)) /\ p[1] < p[2]
            /\ KeyIn(k, all[p[1]]) = KeyIn(k, all[p[2]])
        BY <1>2, <1>3, <2>1
      <3>2. p[1] \in 1..a /\ p[2] \in 1..a
        BY <1>6, <3>1
      <3> QED BY <1>2, <1>3, <3>1, <3>2
    <2>2. ASSUME p \in Doubles(k) PROVE p \in Doubles(k)'
      <3>1. /\ p \in (1..a) \X (1..a) /\ p[1] < p[2]
            /\ KeyIn(k, rs[p[1]]) = KeyIn(k, rs[p[2]])
        BY <1>2, <1>3, <2>2
      <3>2. \A n \in 1..a : n \in 1..(a + b)
        BY <1>2
      <3> QED BY <1>2, <1>3, <3>1, <3>2
    <2> QED BY <2>1, <2>2
  <1> QED BY <1>7

\* Of an event or a metric a CSV file gets one row, over batches, retries and
\* stores, unless the store that writes it has stopped in an append.
THEOREM TwiceOnlyAfterStopHolds == Spec => TwiceOnlyAfterStop
  <1>1. IInv /\ [Next]_vars =>
          [\A k \in Unique : Readable(k) /\ Doubles(k)' # Doubles(k) => k \in stopped]_vars
    <2> SUFFICES ASSUME IInv, Next, NEW k \in Unique, Readable(k), k \notin stopped
                 PROVE  Doubles(k)' = Doubles(k)
      OBVIOUS
    <2>1. UNCHANGED store
      BY DEF Next, Save, AppendKind, StopAppend, MapRaises, ReturnCsv, Commit, RollBack, Open,
             bounds
    <2>2. CASE AppendKind \/ StopAppend
      <3>1. PICK j \in Kinds : j = Kind
        BY <2>2, OrderIs DEF AppendKind, StopAppend, Appending, Kind
      <3>2. PICK es : Grows(j, es)
        BY <2>2, <3>1, AppendGrows, StopGrows DEF IInv
      <3>3. store = "csv"
        BY <2>2 DEF AppendKind, StopAppend, Appending
      <3>4. CASE j = k
        BY <2>1, <3>2, <3>3, <3>4, GrownDoubles DEF IInv
      <3>5. CASE j # k
        BY <2>1, <3>2, <3>5, UniqueKinds, DoublesStay DEF Grows
      <3> QED BY <3>4, <3>5
    <2>3. CASE ~(AppendKind \/ StopAppend)
      <3>1. files' = files
        BY <2>3 DEF Next, Save, MapRaises, ReturnCsv, Commit, RollBack, Open, disk
      <3> QED BY <2>1, <3>1, DoublesStay
    <2> QED BY <2>2, <2>3
  <1> QED BY <1>1, Invariance, PTL DEF Spec, TwiceOnlyAfterStop
================================================================================
