----------------------------- MODULE ResultRows -----------------------------
(* Result records as rows of a table and back (ResultRowMapper and            *)
(* ResultRowReader in src/core/results/store_rows.py): which field is of which *)
(* sort, what a CSV cell or a column of a database keeps of its value, and     *)
(* what is read from it.  A cell is a tuple that starts with what it holds.    *)
EXTENDS Integers

CONSTANT None

\* The fields of the records, by their sort.  Every field has the column of its
\* name; one of money has a column for the amount and one for the currency.
Prices == {"planned_entry_price", "filled_entry_price", "planned_take_profit_price",
           "filled_take_profit_price", "planned_stop_loss_price",
           "filled_stop_loss_price", "planned_rebuild_price", "filled_rebuild_price",
           "realized_pl"}

StrategyEventRecord ==
  [id |-> {"event_id", "task_id", "action", "instrument", "decision"},
   time |-> {"timestamp"},
   text |-> {"display_id", "rule", "snowball_event", "direction", "entry_id",
             "entry_type", "entry_role", "close_reason"},
   optional |-> {"side", "units", "cycle_id", "layer_number", "slot_number",
                 "retracement_count", "build_number", "planned_units", "filled_units"},
   money |-> Prices \cup {"price"}, flag |-> {"is_rebuild"}, count |-> {},
   seconds |-> {}, metadata |-> {"metadata"}]

TradeSummary ==
  [id |-> {"task_id", "trade_id", "instrument"},
   time |-> {"opened_at", "closed_at"},
   text |-> {"direction", "display_id", "entry_role", "close_reason"},
   optional |-> {"side", "cycle_id", "layer_number", "slot_number", "build_number",
                 "open_event_id", "close_event_id", "units"},
   money |-> Prices, flag |-> {}, count |-> {}, seconds |-> {},
   metadata |-> {"metadata"}]

Counts == {"open_trade_count", "closed_trade_count"}

CycleSummary ==
  [id |-> {"task_id", "instrument", "trade_ids"}, time |-> {"opened_at", "closed_at"},
   text |-> {}, optional |-> {}, money |-> {"realized_pl"}, flag |-> {},
   count |-> Counts \cup {"cycle_id", "trade_count"}, seconds |-> {},
   metadata |-> {"metadata"}]

TaskSummary ==
  [id |-> {"task_id", "instrument"}, time |-> {"started_at", "finished_at"},
   text |-> {"task_name", "status"}, optional |-> {}, money |-> {"realized_pl"},
   flag |-> {}, count |-> Counts \cup {"trade_count"}, seconds |-> {},
   metadata |-> {"metadata"}]

ProfitMetric ==
  [id |-> {"metric_id", "task_id", "instrument"}, time |-> {"timestamp"}, text |-> {},
   optional |-> {}, money |-> {"realized_pl", "unrealized_pl", "total_pl"},
   flag |-> {}, count |-> Counts, seconds |-> {"interval"}, metadata |-> {"metadata"}]

FieldsOf ==
  [event |-> StrategyEventRecord, trade |-> TradeSummary, cycle |-> CycleSummary,
   task |-> TaskSummary, metric |-> ProfitMetric]

Fields(kind) == UNION {FieldsOf[kind][sort] : sort \in DOMAIN FieldsOf[kind]}
SortOf(kind, f) == CHOOSE sort \in DOMAIN FieldsOf[kind] : f \in FieldsOf[kind][sort]

\* A time is [at, zone], or None where it is optional; an amount of money is
\* [amount, currency]; an interval is in halves of a second.  Of metadata only
\* its make-up is told: "plain" is JSON, "rich" holds values JSON has none of
\* (sets, money, times), and "wrapped" has the one key "values".
IsValue(sort, v) ==
  CASE sort = "time" -> v = None \/ v = [at |-> v.at, zone |-> v.zone]
    [] sort = "money" -> v = None \/ v = [amount |-> v.amount, currency |-> v.currency]
    [] sort = "flag" -> v \in BOOLEAN
    [] sort = "seconds" -> v \in Int
    [] sort = "metadata" -> v \in {"plain", "rich", "wrapped"}
    [] OTHER -> TRUE

-----------------------------------------------------------------------------
\* Rows.

Null == <<"null">>
Blank == <<"blank">>
Held(v) == <<"held", v>>
Columns(kind) ==
  {<<f, "">> : f \in Fields(kind) \ FieldsOf[kind].money}
    \cup (FieldsOf[kind].money \X {"amount", "currency"})

\* ProfitMetric.interval_seconds raises for less than a second.
Maps(kind, r) == kind = "metric" => r.interval >= 2

\* The cell of a value in the mapper's row; JSON makes lists and texts of what
\* it does not have.
MapCell(sort, v) ==
  CASE sort = "text" -> IF v = "" THEN Blank ELSE Held(v)
    [] sort = "optional" -> IF v = None THEN Null ELSE Held(v)
    [] sort = "time" -> IF v = None THEN Null ELSE <<"time", v>>
    [] sort = "flag" -> <<"flag", v>>
    [] sort = "seconds" -> Held(v \div 2)
    [] sort = "metadata" -> Held(IF v = "rich" THEN "flat" ELSE v)
    [] OTHER -> Held(v)

MapMoney(v, part) ==
  IF v = None THEN Null ELSE Held(IF part = "amount" THEN v.amount ELSE v.currency)

\* Mutant of CsvCell: a missing value is written as its text.
CsvCellLiteral(cell) ==
  IF cell = Null THEN Held("None")
  ELSE IF cell[1] = "flag" THEN Held(IF cell[2] THEN "true" ELSE "false") ELSE cell

\* csv_value: what is missing and the empty text are the same cell.
CsvCell(cell) ==
  IF cell = Null THEN Blank
  ELSE IF cell[1] = "flag" THEN Held(IF cell[2] THEN "true" ELSE "false") ELSE cell

\* A database keeps the values of its columns, but SQLite no time zone.
SqlCell(cell, zoned) ==
  IF cell[1] = "time" /\ ~zoned THEN <<"time", [cell[2] EXCEPT !.zone = FALSE]>> ELSE cell

RowOf(kind, r) ==
  [c \in Columns(kind) |->
     IF c[2] # "" THEN MapMoney(r[c[1]], c[2]) ELSE MapCell(SortOf(kind, c[1]), r[c[1]])]

\* MappingValueObject takes the mapping under an only key "values" for the whole.
ReadCell(sort, cell) ==
  LET missing == cell \in {Null, Blank}
  IN CASE sort = "text" -> IF missing THEN "" ELSE cell[2]
       [] sort \in {"optional", "time"} -> IF missing THEN None ELSE cell[2]
       [] sort = "flag" -> cell \in {<<"flag", TRUE>>, Held("true")}
       [] sort = "count" -> IF missing THEN 0 ELSE cell[2]
       [] sort = "seconds" -> 2 * cell[2]
       [] sort = "metadata" -> IF cell[2] = "wrapped" THEN "inner" ELSE cell[2]
       [] OTHER -> cell[2]

ReadMoney(amount, currency) ==
  IF {amount, currency} \cap {Null, Blank} # {} THEN None
  ELSE [amount |-> amount[2], currency |-> currency[2]]

RecordOf(kind, row) ==
  [f \in Fields(kind) |->
     IF f \in FieldsOf[kind].money THEN ReadMoney(row[<<f, "amount">>], row[<<f, "currency">>])
     ELSE ReadCell(SortOf(kind, f), row[<<f, "">>])]
=============================================================================
