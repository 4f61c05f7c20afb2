---------------------------- MODULE ResultStores ----------------------------
(* The result stores of src/core/results and what their readers find: the     *)
(* dictionaries of InMemoryResultStore, the files of CsvResultStore, and the  *)
(* tables of SqlResultStore.  A save may stop anywhere a write to a file can, *)
(* its caller may try again, and a new store may be opened on what is there.  *)
EXTENDS ResultRows, Sequences, FiniteSets

CONSTANTS
  Record,   \* kind -> records that may be saved
  Batches,  \* the batches saved, kind -> sequence of records
  MaxCalls, MaxOpens  \* bounds: saves, stores opened

Order == <<"event", "trade", "cycle", "task", "metric">>
Kinds == {Order[i] : i \in DOMAIN Order}

\* Events and metrics are saved once and never change.
Unique == {"event", "metric"}

KeyFields ==
  [event |-> {"event_id"}, trade |-> {"task_id", "trade_id"},
   cycle |-> {"task_id", "cycle_id"}, task |-> {"task_id"}, metric |-> {"metric_id"}]
KeyOf(kind, r) == [f \in KeyFields[kind] |-> r[f]]
Ids == UNION {{<<k, KeyOf(k, r)>> : r \in Record[k]} : k \in Kinds}
IdOf(kind, r) == <<kind, KeyOf(kind, r)>>

ASSUME StoresAssumption ==
  /\ DOMAIN Record = Kinds
  /\ \A k \in Kinds : \A r \in Record[k] :
       r # None /\ DOMAIN r = Fields(k) /\ \A f \in Fields(k) : IsValue(SortOf(k, f), r[f])
  /\ \A k \in Unique : \A r, s \in Record[k] : KeyOf(k, r) = KeyOf(k, s) => r = s
  /\ Batches \subseteq [Kinds -> UNION {Seq(Record[k]) : k \in Kinds}]
  /\ \A b \in Batches : \A k \in Kinds : b[k] \in Seq(Record[k])
  /\ MaxCalls \in Nat /\ MaxOpens \in Nat \ {0}

VARIABLES
  store,    \* "memory", "csv", "sqlite", or "sql" for another database
  files,    \* per kind, the CSV file: whether it is there, starts with its
            \* header and has whole lines only, and its rows
  known,    \* per kind, CsvResultStore._known_keys, None before its first use
  tables,   \* per kind, the rows of a table, or the records in memory
  batch,    \* the batch being saved
  at,       \* the kind of it that comes next, 0 for no call
  calls, opens,
  kept,     \* history: per id, the last record whose save returned
  since,    \* history: per id, the records of saves that did not, after it
  stopped   \* history: kinds whose append this store has stopped in

vars == <<store, files, known, tables, batch, at, calls, opens, kept, since, stopped>>
disk == <<files, known>>
bounds == <<store, calls, opens>>

NoFile == [there |-> FALSE, headed |-> FALSE, whole |-> TRUE, rows |-> <<>>]
Init ==
  /\ store \in {"memory", "csv", "sqlite", "sql"}
  /\ files = [k \in Kinds |-> NoFile] /\ known = [k \in Kinds |-> None]
  /\ tables = [k \in Kinds |-> {}] /\ batch = [k \in Kinds |-> <<>>] /\ at = 0
  /\ calls = 0 /\ opens = 1
  /\ kept = [i \in Ids |-> None] /\ since = [i \in Ids |-> {}] /\ stopped = {}

\* What a store holds of a record, and the record a reader makes of it.
Entry(kind, r) ==
  IF store = "memory" THEN r
  ELSE LET row == RowOf(kind, r)
       IN [c \in Columns(kind) |->
             IF store = "csv" THEN CsvCell(row[c]) ELSE SqlCell(row[c], store = "sql")]
Read(kind, e) == IF store = "memory" THEN e ELSE RecordOf(kind, e)

EntriesOf(kind) == [i \in DOMAIN batch[kind] |-> Entry(kind, batch[kind][i])]
KeyIn(kind, e) == KeyOf(kind, Read(kind, e))

-----------------------------------------------------------------------------
\* A call.

Save ==
  /\ at = 0 /\ calls < MaxCalls /\ calls' = calls + 1
  /\ batch' \in Batches /\ at' = 1
  /\ since' = [i \in Ids |->
       since[i] \cup {r \in Record[i[1]] : IdOf(i[1], r) = i
                        /\ \E n \in DOMAIN batch'[i[1]] : batch'[i[1]][n] = r}]
  /\ UNCHANGED <<store, disk, tables, opens, kept, stopped>>

\* The ids in the batch, the last record of each.
IdsInBatch == {i \in Ids : \E n \in DOMAIN batch[i[1]] : IdOf(i[1], batch[i[1]][n]) = i}
LastOf(i) ==
  LET ns == {n \in DOMAIN batch[i[1]] : IdOf(i[1], batch[i[1]][n]) = i}
  IN batch[i[1]][CHOOSE n \in ns : \A m \in ns : m <= n]

\* The call returns: the last record of each id in the batch is kept.
Returns ==
  /\ kept' = [i \in Ids |-> IF i \in IdsInBatch THEN LastOf(i) ELSE kept[i]]
  /\ since' = [i \in Ids |-> IF i \in IdsInBatch THEN {} ELSE since[i]]

Mapped(kind) == \A n \in DOMAIN batch[kind] : Maps(kind, batch[kind][n])

-----------------------------------------------------------------------------
\* CsvResultStore: one file after the other.

Kind == Order[at]
Appending == store = "csv" /\ at \in DOMAIN Order

\* The keys the store knows of: read from the file before the first append.
KeysInFile(k) ==
  IF files[k].headed THEN {KeyIn(k, files[k].rows[n]) : n \in DOMAIN files[k].rows} ELSE {}

\* Mutant of KnownKeys: a new store does not look into the file.
KnownKeysFresh(k) == IF known[k] # None THEN known[k] ELSE {}

KnownKeys(k) == IF known[k] # None THEN known[k] ELSE KeysInFile(k)

\* The places of a batch whose key is new, to the store and in the batch.
NewPlaces(k) ==
  LET es == EntriesOf(k) IN
  {n \in DOMAIN es : /\ KeyIn(k, es[n]) \notin KnownKeys(k)
                     /\ \A m \in 1..(n - 1) : KeyIn(k, es[m]) # KeyIn(k, es[n])}

\* The places of S in their order: a set of one sequence.
InOrder(S) ==
  {p \in [1..Cardinality(S) -> S] : \A i, j \in DOMAIN p : i < j => p[i] < p[j]}

\* The rows to append: of events and metrics those of new keys, each once.
ToAppend(k) ==
  IF k \notin Unique THEN {EntriesOf(k)}
  ELSE {[j \in DOMAIN p |-> EntriesOf(k)[p[j]]] : p \in InOrder(NewPlaces(k))}

\* Mutant of Written: the header is taken for written before the file is there.
WrittenHeaded(k, rows, n, whole) ==
  LET first == IF files[k].there THEN 0 ELSE 1
  IN [there |-> files[k].there \/ n > 0, headed |-> TRUE, whole |-> files[k].whole /\ whole,
      rows |-> files[k].rows \o SubSeq(rows, 1, n - first)]

\* The file when n lines of it have been written, whole or not.
Written(k, rows, n, whole) ==
  LET first == IF files[k].there THEN 0 ELSE 1
  IN [there |-> TRUE, headed |-> files[k].headed \/ (first = 1 /\ n > 0),
      whole |-> files[k].whole /\ whole,
      rows |-> files[k].rows \o SubSeq(rows, 1, n - first)]
Lines(k, rows) == Len(rows) + (IF files[k].there THEN 0 ELSE 1)

AppendKind ==
  /\ Appending /\ Mapped(Kind) /\ at' = at + 1
  /\ \E rows \in ToAppend(Kind) :
       files' = IF rows = <<>> THEN files
                ELSE [files EXCEPT ![Kind] = Written(Kind, rows, Lines(Kind, rows), TRUE)]
  /\ known' = IF Kind \notin Unique \/ batch[Kind] = <<>> THEN known
              ELSE [known EXCEPT ![Kind] = KnownKeys(Kind) \cup
                      {KeyIn(Kind, EntriesOf(Kind)[n]) : n \in DOMAIN batch[Kind]}]
  /\ UNCHANGED <<bounds, tables, batch, kept, since, stopped>>

\* The file does not open, or the write stops after some lines or within one.
StopAppend ==
  /\ Appending /\ Mapped(Kind) /\ at' = 0
  /\ \E rows \in ToAppend(Kind) \ {<<>>} :
       \/ UNCHANGED files
       \/ \E n \in 0..Lines(Kind, rows), whole \in BOOLEAN :
            files' = [files EXCEPT ![Kind] = Written(Kind, rows, n, whole)]
  /\ known' = IF Kind \in Unique THEN [known EXCEPT ![Kind] = KnownKeys(Kind)] ELSE known
  /\ stopped' = stopped \cup {Kind}
  /\ UNCHANGED <<bounds, tables, batch, kept, since>>

\* A record of the kind does not map to a row.
MapRaises ==
  /\ Appending /\ ~Mapped(Kind) /\ at' = 0
  /\ UNCHANGED <<bounds, disk, tables, batch, kept, since, stopped>>

ReturnCsv ==
  /\ store = "csv" /\ at = Len(Order) + 1 /\ at' = 0 /\ Returns
  /\ UNCHANGED <<bounds, disk, tables, batch, stopped>>

-----------------------------------------------------------------------------
\* The other stores: all records or none.

\* The entries of a kind with those of the batch in place of older ones.
Put(k) ==
  {e \in tables[k] : \A n \in DOMAIN batch[k] : KeyOf(k, batch[k][n]) # KeyIn(k, e)}
    \cup {EntriesOf(k)[n] : n \in {m \in DOMAIN batch[k] :
            \A j \in DOMAIN batch[k] :
              KeyOf(k, batch[k][j]) = KeyOf(k, batch[k][m]) => j <= m}}

Commit ==
  /\ store # "csv" /\ at = 1 /\ at' = 0
  /\ store = "memory" \/ \A k \in Kinds : Mapped(k)
  /\ tables' = [k \in Kinds |-> Put(k)] /\ Returns
  /\ UNCHANGED <<bounds, disk, batch, stopped>>

\* The database or the mapper raises, and the transaction is rolled back.
RollBack ==
  /\ store \in {"sqlite", "sql"} /\ at = 1 /\ at' = 0
  /\ UNCHANGED <<bounds, disk, tables, batch, kept, since, stopped>>

-----------------------------------------------------------------------------
\* A new store on the same directory or database, of the same process or, after
\* a crash at any write, of the next.
Open ==
  /\ at = 0 /\ opens < MaxOpens /\ opens' = opens + 1
  /\ known' = [k \in Kinds |-> None] /\ stopped' = {}
  /\ IF store # "memory" THEN UNCHANGED <<tables, kept, since>>
     ELSE /\ tables' = [k \in Kinds |-> {}]
          /\ kept' = [i \in Ids |-> None] /\ since' = [i \in Ids |-> {}]
  /\ UNCHANGED <<store, files, batch, at, calls>>

Next ==
  \/ Save \/ AppendKind \/ StopAppend \/ MapRaises \/ ReturnCsv \/ Commit \/ RollBack
  \/ Open
Spec == Init /\ [][Next]_vars

-----------------------------------------------------------------------------
\* Readers.

\* A file that has lost its header or ends within a line cannot be read.
Readable(k) == store = "csv" /\ files[k].there => files[k].headed /\ files[k].whole

\* What the reader of a kind returns under an id: of events and metrics every
\* row, of the summaries the newest.
Found(i) ==
  LET k == i[1]
      ns == {n \in DOMAIN files[k].rows : KeyIn(k, files[k].rows[n]) = i[2]}
  IN IF store # "csv" THEN {Read(k, e) : e \in {x \in tables[k] : KeyIn(k, x) = i[2]}}
     ELSE {Read(k, files[k].rows[n]) :
             n \in {m \in ns : k \in Unique \/ \A j \in ns : j <= m}}

Doubles(k) ==
  {p \in (DOMAIN files[k].rows) \X (DOMAIN files[k].rows) :
     p[1] < p[2] /\ KeyIn(k, files[k].rows[p[1]]) = KeyIn(k, files[k].rows[p[2]])}

-----------------------------------------------------------------------------
\* Properties.

\* The variables keep their types.
TypeOK ==
  /\ store \in {"memory", "csv", "sqlite", "sql"}
  /\ \A k \in Kinds : /\ {files[k].there, files[k].headed, files[k].whole} \subseteq BOOLEAN
                      /\ \A n \in DOMAIN files[k].rows : DOMAIN files[k].rows[n] = Columns(k)
                      /\ files[k].headed \/ files[k].rows # <<>> => files[k].there
  /\ at \in 0..(Len(Order) + 1) /\ calls \in 0..MaxCalls /\ opens \in 1..MaxOpens
  /\ \A i \in Ids : kept[i] \in Record[i[1]] \cup {None} /\ since[i] \subseteq Record[i[1]]
  /\ stopped \subseteq Kinds

\* x is r but for what its store cannot hold: what JSON makes of metadata, the
\* part of a second of an interval, and the zone of a time in SQLite.
Same(kind, r, x) ==
  \A f \in Fields(kind) :
    CASE f = "metadata" /\ store # "memory" ->
           x[f] = [plain |-> "plain", rich |-> "flat", wrapped |-> "inner"][r[f]]
      [] f = "interval" /\ store # "memory" -> x[f] = r[f] - (r[f] % 2)
      [] f \in FieldsOf[kind].time /\ r[f] # None /\ store = "sqlite" -> x[f].at = r[f].at
      [] OTHER -> x[f] = r[f]

\* What a save returned for is found under its id, field by field, however many
\* saves stopped or raised before and after it and whichever store was opened
\* since; where not, it gave way to a record of such a later save.  Nothing else
\* is ever found.
ReadersFind ==
  \A i \in Ids : at = 0 /\ Readable(i[1]) =>
    /\ kept[i] # None => Found(i) # {}
    /\ \A x \in Found(i) :
         \E r \in since[i] \cup ({kept[i]} \ {None}) : Same(i[1], r, x)

\* An event or a metric is in its file once, in one batch, over retries and in
\* a file that another store has written; only the store whose append of it
\* stopped half way writes it again.
TwiceOnlyAfterStop ==
  [][\A k \in Unique : Readable(k) /\ Doubles(k)' # Doubles(k) => k \in stopped]_vars
=============================================================================
