------------------------ MODULE OrderExecution_proofs ------------------------
(* Proofs about OrderExecution, for all brokers, prices, requests and batches: *)
(* every request is answered in its turn, names agree, and a close touches     *)
(* only what its request names.                                                *)
EXTENDS OrderExecution, TLAPS

Busy == {"publish", "execute", "close", "answer", "account"}

\* Where process_result is in its batch.
Place ==
  /\ next \in Nat \ {0} /\ at \in Nat \ {0}
  /\ pc \in Busy => batch \in Batches /\ next \in DOMAIN batch
  /\ pc = "publish" => next = 1 /\ reports = <<>>
  /\ pc \in {"answer", "account"} => next = Len(batch)
  /\ IF pc = "close" THEN Now.action = "close_trade" /\ targets # {} ELSE targets = {}

\* A response is one to its own request, which needed the broker, and its order
\* has the request's name.
Faithful ==
  \A j \in DOMAIN reports :
    /\ reports[j].place \in DOMAIN batch
    /\ reports[j].event = batch[reports[j].place]
    /\ RequiresBroker(reports[j].event)
    /\ reports[j].order # None /\ reports[j].event.action = "open_trade"
         => reports[j].order.name = OrderName(reports[j].event)

\* The responses are to requests up to the one being executed, in their order,
Ordered ==
  /\ \A j \in DOMAIN reports :
       pc \in Busy => reports[j].place <= next /\ (pc = "execute" => reports[j].place < next)
  /\ \A j, k \in DOMAIN reports : j < k => reports[j].place <= reports[k].place

\* and each request before it, and at the end all of them, has one.
Answered ==
  \A i \in DOMAIN batch :
    /\ pc \in Busy /\ (i < next \/ pc \in {"answer", "account"})
    /\ RequiresBroker(batch[i])
    => \E j \in DOMAIN reports : reports[j].place = i

\* What a close is about was found by the name of its request, or by its side.
Found ==
  \A k \in targets :
    IF k = 0 THEN FromEvent(Now) = Blank
    ELSE /\ k \in DOMAIN trades /\ trades[k].instrument = Now.instrument
         /\ trades[k].side = Closes(Now.side)
         /\ FromEvent(Now) \in TradeNames(trades, k)

IInv == TypeOK /\ Place /\ Faithful /\ Ordered /\ Answered /\ Found

-----------------------------------------------------------------------------
\* Types of the data.

LEMMA FillPriceType == \A o \in Order : FillPrice(o) \in Money \cup {None}
  BY DEF FillPrice, Order

LEMMA PrintedType == \A m \in Money : Printed(m) \in Money
  <1> SUFFICES ASSUME NEW m \in Money PROVE Printed(m) \in Money
    OBVIOUS
  <1>1. m.amount \in Int /\ 2 * Cent \in Nat \ {0} /\ Cent \in Nat
    BY ModelsAssumption DEF Money
  <1>2. (2 * m.amount + Cent) \div (2 * Cent) \in Int
    BY <1>1
  <1>3. ((2 * m.amount + Cent) \div (2 * Cent)) * Cent \in Int
    BY <1>1, <1>2
  <1> QED BY <1>3 DEF Printed, Money

\* A name looked up is a text, a trimmed one, which trimming leaves as it is.
LEMMA TextTypes ==
  /\ Blank \in Id /\ Id \subseteq Text /\ \A x \in Id : Trim[x] = x
  /\ \A x \in Text : Trim[x] \in Id
  /\ \A x \in Text \cup {None, Absent} : MetadataText(x) \in Id
  <1>1. Blank \in Id /\ Id \subseteq Text
    BY ModelsAssumption DEF Id
  <1>2. \A x \in Id : Trim[x] = x
    BY ModelsAssumption DEF Id
  <1>3. \A x \in Text : Trim[x] \in Id
    BY DEF Id
  <1> QED BY <1>1, <1>2, <1>3 DEF MetadataText

LEMMA NameType ==
  \A e \in Request : /\ OrderName(e) \in Text \cup {None}
                     /\ MetadataText(OrderName(e)) \in Id
                     /\ FromEvent(e) \in Id /\ FromEvent(e) \in Text
  <1> SUFFICES ASSUME NEW e \in Request
               PROVE  /\ OrderName(e) \in Text \cup {None} /\ FromEvent(e) \in Id
    BY TextTypes
  <1>1. /\ e.display \in Text /\ e.name \in Text \cup {None, Absent}
        /\ e.entry \in Text \cup {None, Absent}
    BY DEF Request
  <1>2. OrderName(e) \in Text \cup {None}
    BY <1>1, ModelsAssumption DEF OrderName
  <1>3. FromEvent(e) \in Id
    BY <1>1, TextTypes DEF FromEvent
  <1> QED BY <1>2, <1>3

\* The two rules name alike what is unambiguous.
LEMMA RulesAgree ==
  \A e \in Request : Unambiguous(e) => MetadataText(OrderName(e)) = FromEvent(e)
  <1> SUFFICES ASSUME NEW e \in Request, Unambiguous(e)
               PROVE  MetadataText(OrderName(e)) = FromEvent(e)
    OBVIOUS
  <1>1. /\ e.display \in Text /\ e.name \in Text \cup {None, Absent}
        /\ e.entry \in Text \cup {None, Absent}
    BY DEF Request
  <1>2. CASE e.name # Absent
    BY <1>2 DEF OrderName, Unambiguous
  <1>3. CASE e.name = Absent /\ e.display # Blank
    <2>1. OrderName(e) = e.display /\ Trim[e.display] # Blank
      BY <1>3 DEF OrderName, Unambiguous
    <2>2. MetadataText(OrderName(e)) = Trim[e.display]
      BY <1>1, <2>1, ModelsAssumption DEF MetadataText
    <2> QED BY <2>1, <2>2 DEF FromEvent
  <1>4. CASE e.name = Absent /\ e.display = Blank
    <2>1. e.entry # None /\ OrderName(e) = IF e.entry = Absent THEN Blank ELSE e.entry
      BY <1>4, ModelsAssumption DEF OrderName, Unambiguous
    <2>2. FromEvent(e) = MetadataText(e.entry)
      BY <1>4, ModelsAssumption DEF FromEvent, MetadataText
    <2>3. MetadataText(OrderName(e)) = MetadataText(e.entry)
      BY <1>1, <2>1, ModelsAssumption DEF MetadataText
    <2> QED BY <2>2, <2>3
  <1> QED BY <1>2, <1>3, <1>4


LEMMA OrderTypes ==
  ASSUME NEW e \in Request, e.units \in Nat, e.side \in TradeSide
  PROVE  /\ OpenOrder(e) \in Order /\ CloseOrder(e) \in Order
         /\ Filled(OpenOrder(e)) \in Order /\ Filled(CloseOrder(e)) \in Order
         /\ OpenOrder(e).name = OrderName(e) /\ Filled(OpenOrder(e)).name = OrderName(e)
  <1>1. OpenOrder(e) \in Order /\ OpenOrder(e).name = OrderName(e)
    BY NameType DEF OpenOrder, Order, Request, TradeSide, OrderSide, OrderStatus
  <1>2. (IF e.name # Absent THEN e.name ELSE FromEvent(e)) \in Text \cup {None}
    BY NameType DEF Request
  <1>3. CloseOrder(e) \in Order
    BY <1>1, <1>2 DEF CloseOrder, Order
  <1> QED BY <1>1, <1>3 DEF Filled, Order, OrderStatus

LEMMA ResponseType ==
  ASSUME NEW place \in Nat, NEW e \in Request, NEW o \in Order \cup {None}
  PROVE  /\ Response(place, e, o) \in Report
         /\ Response(place, e, o).place = place
         /\ Response(place, e, o).event = e
         /\ Response(place, e, o).order = o
  <1> DEFINE Says(key) == IF o # None /\ key \in KeysFor(e)
                          THEN IF o.filled > 0 /\ FillPrice(o) # None
                               THEN Printed(FillPrice(o)) ELSE None
                          ELSE None
  <1>1. ASSUME NEW key \in PriceKey PROVE Says(key) \in Money \cup {None}
    <2>1. CASE o # None /\ FillPrice(o) # None
      <3>1. FillPrice(o) \in Money BY <2>1, FillPriceType
      <3> QED BY <3>1, PrintedType
    <2>2. CASE ~(o # None /\ FillPrice(o) # None)
      BY <2>2
    <2> QED BY <2>1, <2>2
  <1>2. [key \in PriceKey |-> Says(key)] \in [PriceKey -> Money \cup {None}]
    BY <1>1
  <1> QED BY <1>2 DEF Response, Report

LEMMA PlaceType == \A s \in Seq(Report) : \A j \in DOMAIN s : s[j] \in Report /\ s[j].place \in Nat
  <1>1. \A s \in Seq(Report) : \A j \in DOMAIN s : s[j] \in Report
    OBVIOUS
  <1>2. \A x \in Report : x.place \in Nat
    BY DEF Report
  <1> QED BY <1>1, <1>2

-----------------------------------------------------------------------------
\* The request being executed.

LEMMA RequestNow ==
  ASSUME TypeOK, Place, pc \in Busy
  PROVE  /\ batch \in Seq(Request) /\ next \in 1..Len(batch) /\ Len(batch) \in Nat
         /\ Now \in Request /\ ValidRequest(Now)
         /\ \A i \in DOMAIN batch : batch[i] \in Request /\ ValidRequest(batch[i])
  <1>1. batch \in Seq({e \in Request : ValidRequest(e)}) /\ next \in DOMAIN batch
    BY ExecutionAssumption DEF Place
  <1>2. \A i \in DOMAIN batch : batch[i] \in Request /\ ValidRequest(batch[i])
    BY <1>1
  <1>3. batch \in Seq(Request)
    BY <1>1
  <1> QED BY <1>1, <1>2, <1>3 DEF Now

\* A response to it.
Responds(r) ==
  /\ r \in Report /\ r.place = next /\ r.event = Now /\ RequiresBroker(Now)
  /\ r.order # None /\ Now.action = "open_trade" => r.order.name = OrderName(Now)

LEMMA FailureResponds ==
  ASSUME TypeOK, Place, pc \in Busy, RequiresBroker(Now)
  PROVE  Responds(Failure(next, Now))
  <1>1. next \in Nat /\ Now \in Request
    BY RequestNow
  <1> QED BY <1>1, ResponseType DEF Failure, Responds

LEMMA OrderResponds ==
  ASSUME TypeOK, Place, pc \in Busy, RequiresBroker(Now), NEW o \in Order,
         Now.action = "open_trade" => o.name = OrderName(Now)
  PROVE  Responds(Response(next, Now, o))
  <1>1. next \in Nat /\ Now \in Request
    BY RequestNow
  <1> QED BY <1>1, ResponseType DEF Responds

\* The part of the invariant the responses make.
Reported == reports \in Seq(Report) /\ Place /\ Faithful /\ Ordered /\ Answered

\* One more response keeps the others, ends them, and stands for its request.
LEMMA AppendResponse ==
  ASSUME TypeOK, Faithful, Ordered, NEW r, Responds(r), pc \in {"execute", "close"},
         Place, reports' = Append(reports, r), batch' = batch
  PROVE  /\ reports' \in Seq(Report) /\ Faithful'
         /\ \A j \in DOMAIN reports' : reports'[j].place <= next
         /\ \A j, k \in DOMAIN reports' : j < k => reports'[j].place <= reports'[k].place
         /\ \E j \in DOMAIN reports' : reports'[j].place = next
         /\ \A j \in DOMAIN reports : j \in DOMAIN reports' /\ reports'[j] = reports[j]
  <1>1. /\ reports \in Seq(Report) /\ r \in Report /\ r.place = next /\ r.event = batch[next]
        /\ next \in DOMAIN batch /\ Len(reports) \in Nat
    BY DEF TypeOK, Responds, Place, Busy, Now
  <1>2. /\ reports' \in Seq(Report) /\ Len(reports') = Len(reports) + 1
        /\ \A j \in 1..Len(reports) : reports'[j] = reports[j]
        /\ reports'[Len(reports) + 1] = r
    BY <1>1
  <1>3. DOMAIN reports' = 1..(Len(reports) + 1) /\ DOMAIN reports = 1..Len(reports)
    BY <1>1, <1>2
  <1>4. \A j \in DOMAIN reports' : j \in DOMAIN reports \/ j = Len(reports) + 1
    BY <1>1, <1>3
  <1>5. \A j \in DOMAIN reports : reports'[j] = reports[j] /\ reports[j].place <= next
    BY <1>1, <1>2, <1>3 DEF Ordered, Busy
  <1>6. \A j \in DOMAIN reports' : reports'[j].place \in Nat
    BY <1>2, PlaceType
  <1>7. Faithful'
    BY <1>1, <1>2, <1>3, <1>4, <1>5 DEF Faithful, Responds, Now
  <1>8. \A j \in DOMAIN reports' : reports'[j].place <= next
    <2> SUFFICES ASSUME NEW j \in DOMAIN reports' PROVE reports'[j].place <= next
      OBVIOUS
    <2>1. CASE j \in DOMAIN reports
      BY <2>1, <1>5
    <2>2. CASE j = Len(reports) + 1
      BY <2>2, <1>1, <1>2, next \in Nat DEF Place
    <2> QED BY <2>1, <2>2, <1>4
  <1>9. \A j, k \in DOMAIN reports' : j < k => reports'[j].place <= reports'[k].place
    <2> SUFFICES ASSUME NEW j \in DOMAIN reports', NEW k \in DOMAIN reports', j < k
                 PROVE  reports'[j].place <= reports'[k].place
      OBVIOUS
    <2>1. j \in DOMAIN reports
      BY <1>1, <1>3
    <2>2. CASE k \in DOMAIN reports
      BY <2>1, <2>2, <1>5 DEF Ordered
    <2>3. CASE k = Len(reports) + 1
      BY <2>3, <1>1, <1>2, <1>8
    <2> QED BY <2>2, <2>3, <1>4
  <1> QED BY <1>1, <1>2, <1>3, <1>5, <1>7, <1>8, <1>9

\* Answering the request completes its part of the batch.
LEMMA AnswerKeeps ==
  ASSUME IInv, pc \in {"execute", "close"}, NEW r, Responds(r), Answer(<<r>>)
  PROVE  Reported' /\ targets' = {} /\ pc' \in {"execute", "answer"}
  <1>1. reports' = Append(reports, r) /\ batch' = batch /\ at' = at /\ targets' = {}
    BY DEF Answer, IInv, TypeOK, Responds
  <1>2. TypeOK /\ Place /\ Faithful /\ Ordered /\ Answered
    BY DEF IInv
  <1>3. /\ reports' \in Seq(Report) /\ Faithful'
        /\ \A j \in DOMAIN reports' : reports'[j].place <= next
        /\ \A j, k \in DOMAIN reports' : j < k => reports'[j].place <= reports'[k].place
        /\ \E j \in DOMAIN reports' : reports'[j].place = next
        /\ \A j \in DOMAIN reports : j \in DOMAIN reports' /\ reports'[j] = reports[j]
    BY <1>1, <1>2, AppendResponse
  <1>4. next \in Nat /\ 1 <= next /\ next <= Len(batch) /\ Len(batch) \in Nat
    BY <1>2, RequestNow DEF Busy
  <1>b. batch \in Batches /\ \A i : i \in DOMAIN batch <=> i \in 1..Len(batch)
    BY <1>2, RequestNow DEF Busy, Place
  <1>5. \/ pc' = "answer" /\ next' = next /\ next = Len(batch)
        \/ pc' = "execute" /\ next' = next + 1 /\ next' \in DOMAIN batch
    <2>1. IF next = Len(batch) THEN pc' = "answer" /\ next' = next
          ELSE pc' = "execute" /\ next' = next + 1
      BY DEF Answer
    <2>2. next # Len(batch) => next + 1 \in 1..Len(batch)
      BY <1>4
    <2>3. next # Len(batch) => next + 1 \in DOMAIN batch
      BY <2>2, <1>b
    <2> QED BY <2>1, <2>3
  <1>6. Place'
    <2>1. next' \in Nat \ {0} /\ next' \in DOMAIN batch
      BY <1>4, <1>5, <1>b
    <2> QED BY <1>1, <1>2, <1>4, <1>5, <1>b, <2>1 DEF Place
  <1>7. Ordered'
    <2>1. \A j \in DOMAIN reports' : reports'[j].place \in Nat
      BY <1>3, PlaceType
    <2> QED BY <1>3, <1>4, <1>5, <2>1 DEF Ordered
  <1>8. Answered'
    <2> SUFFICES ASSUME NEW i \in DOMAIN batch, RequiresBroker(batch[i]),
                        i < next' \/ pc' \in {"answer", "account"}
                 PROVE  \E j \in DOMAIN reports' : reports'[j].place = i
      BY <1>1 DEF Answered
    <2>1. i < next \/ i = next
      <3>1. i \in 1..Len(batch)
        BY <1>b
      <3> QED BY <1>4, <1>5, <3>1
    <2>2. CASE i < next
      BY <2>2, <1>2, <1>3 DEF Answered, Busy
    <2> QED BY <2>1, <2>2, <1>3
  <1> QED BY <1>1, <1>3, <1>5, <1>6, <1>7, <1>8 DEF Reported

\* A request that needs no broker is passed over.
LEMMA HoldKeeps ==
  ASSUME IInv, Hold
  PROVE  Reported' /\ targets' = {} /\ pc' \in {"execute", "answer"}
  <1>1. /\ pc = "execute" /\ ~RequiresBroker(Now) /\ batch' = batch /\ at' = at /\ targets' = {}
        /\ IF next = Len(batch) THEN pc' = "answer" /\ next' = next
           ELSE pc' = "execute" /\ next' = next + 1
    BY DEF Hold, Executing, Answer, RequiresBroker
  <1>2. TypeOK /\ Place /\ Faithful /\ Ordered /\ Answered
    BY DEF IInv
  <1>3. reports \in Seq(Report) /\ reports' = reports
    BY DEF IInv, TypeOK, Hold, Answer
  <1>4. next \in Nat /\ 1 <= next /\ next <= Len(batch) /\ Len(batch) \in Nat
    BY <1>1, <1>2, RequestNow DEF Busy
  <1>5. batch \in Batches /\ \A i : i \in DOMAIN batch <=> i \in 1..Len(batch)
    BY <1>1, <1>2, RequestNow DEF Busy, Place
  <1>6. next' \in 1..Len(batch) /\ next <= next'
    BY <1>1, <1>4
  <1>7. Place'
    BY <1>1, <1>2, <1>4, <1>5, <1>6 DEF Place
  <1>8. Faithful'
    BY <1>1, <1>2, <1>3 DEF Faithful
  <1>9. Ordered'
    <2>1. \A j \in DOMAIN reports : reports[j].place \in Nat /\ reports[j].place < next
      BY <1>1, <1>2, <1>3, PlaceType DEF Ordered, Busy
    <2> QED BY <1>1, <1>2, <1>3, <1>4, <1>6, <2>1 DEF Ordered
  <1>10. Answered'
    <2> SUFFICES ASSUME NEW i \in DOMAIN batch, RequiresBroker(batch[i]),
                        i < next' \/ pc' \in {"answer", "account"}
                 PROVE  \E j \in DOMAIN reports : reports[j].place = i
      BY <1>1, <1>3 DEF Answered
    <2>1. i # next
      BY <1>1 DEF Now
    <2>2. i \in 1..Len(batch)
      BY <1>5
    <2>3. i < next
      BY <1>1, <1>4, <2>1, <2>2
    <2> QED BY <1>1, <1>2, <2>3 DEF Answered, Busy
  <1> QED BY <1>1, <1>3, <1>7, <1>8, <1>9, <1>10 DEF Reported

\* Closing one target of several adds its response and leaves the others.
LEMMA CloseKeeps ==
  ASSUME IInv, pc = "close", NEW t \in targets, NEW r, Responds(r), Close(t, r)
  PROVE  /\ Reported' /\ targets' \subseteq targets /\ pc' \in {"close", "execute", "answer"}
         /\ targets' = {} \/ (batch' = batch /\ next' = next)
  <1>1. CASE targets = {t}
    <2>1. Answer(<<r>>) BY <1>1 DEF Close
    <2> QED BY <2>1, AnswerKeeps
  <1>2. CASE targets # {t}
    <2>1. /\ reports' = Append(reports, r) /\ targets' = targets \ {t}
          /\ pc' = pc /\ batch' = batch /\ next' = next /\ at' = at
      BY <1>2 DEF Close
    <2>2. TypeOK /\ Place /\ Faithful /\ Ordered /\ Answered
      BY DEF IInv
    <2>3. /\ reports' \in Seq(Report) /\ Faithful'
          /\ \A j \in DOMAIN reports' : reports'[j].place <= next
          /\ \A j, k \in DOMAIN reports' : j < k => reports'[j].place <= reports'[k].place
          /\ \A j \in DOMAIN reports : j \in DOMAIN reports' /\ reports'[j] = reports[j]
      BY <2>1, <2>2, AppendResponse
    <2>4. targets' # {}
      BY <1>2, <2>1
    <2>5. Place'
      BY <2>1, <2>2, <2>4 DEF Place, Now
    <2>6. Ordered'
      BY <2>1, <2>3 DEF Ordered
    <2>7. Answered'
      BY <2>1, <2>2, <2>3 DEF Answered
    <2> QED BY <2>1, <2>3, <2>5, <2>6, <2>7 DEF Reported
  <1> QED BY <1>1, <1>2

-----------------------------------------------------------------------------
\* The broker's account.

\* Its trades keep their types and what they are found by.
Kept ==
  /\ trades' \in Seq(Trade) /\ stray' \subseteq Id /\ earned' \in Int
  /\ \A k \in DOMAIN trades :
       /\ k \in DOMAIN trades' /\ trades'[k].instrument = trades[k].instrument
       /\ trades'[k].side = trades[k].side /\ trades'[k].name = trades[k].name
       /\ trades'[k].entry = trades[k].entry

LEMMA AccountKept ==
  ASSUME TypeOK, UNCHANGED account
  PROVE  Kept
  BY DEF TypeOK, account, Kept

\* What a close is about stays so while its request does.
LEMMA FoundKept ==
  ASSUME Found, Kept, targets' \subseteq targets,
         targets' = {} \/ (batch' = batch /\ next' = next)
  PROVE  Found'
  <1>1. CASE targets' = {}
    BY <1>1 DEF Found
  <1>2. CASE batch' = batch /\ next' = next
    <2>1. Now' = Now BY <1>2 DEF Now
    <2> SUFFICES ASSUME NEW k \in targets', k # 0
                 PROVE  /\ k \in DOMAIN trades' /\ trades'[k].instrument = Now.instrument
                        /\ trades'[k].side = Closes(Now.side)
                        /\ FromEvent(Now) \in TradeNames(trades', k)
      BY <2>1 DEF Found
    <2>2. /\ k \in DOMAIN trades /\ trades[k].instrument = Now.instrument
          /\ trades[k].side = Closes(Now.side) /\ FromEvent(Now) \in TradeNames(trades, k)
      BY DEF Found
    <2> QED BY <2>2 DEF Kept, TradeNames
  <1> QED BY <1>1, <1>2

LEMMA NamesType == \A ks \in SUBSET DOMAIN trades : TypeOK => NamesOf(ks) \subseteq Id
  <1> SUFFICES ASSUME NEW ks \in SUBSET DOMAIN trades, TypeOK PROVE NamesOf(ks) \subseteq Id
    OBVIOUS
  <1>1. \A k \in DOMAIN trades : trades[k] \in Trade
    BY DEF TypeOK
  <1>2. \A x \in Trade : x.name \in Id
    BY DEF Trade
  <1> QED BY <1>1, <1>2 DEF NamesOf

\* Opening a trade.
LEMMA PlacedKept ==
  ASSUME TypeOK, Place, pc = "execute", Now.action = "open_trade",
         NEW f \in 0..Now.units, NEW amount \in Market, NEW known \in BOOLEAN,
         Placed(f, amount, known)
  PROVE  Kept
  <1>1. Now \in Request /\ ValidRequest(Now)
    BY RequestNow DEF Busy
  <1>2. Now.instrument \in Instrument /\ Now.side \in TradeSide /\ Now.units \in Nat
    BY <1>1 DEF Request, ValidRequest
  <1>3. MetadataText(OrderName(Now)) \in Id /\ FromEvent(Now) \in Id
    BY <1>1, NameType
  <1>4. Price(Now.instrument, amount) \in Money
    BY <1>2, ModelsAssumption, ExecutionAssumption DEF Price, Money
  <1>5. f \in Nat
    BY <1>2
  <1> DEFINE new == [instrument |-> Now.instrument, side |-> Opens(Now.side), units |-> f,
                     entry |-> Price(Now.instrument, amount),
                     name |-> MetadataText(OrderName(Now))]
  <1>6. new \in Trade
    BY <1>2, <1>3, <1>4, <1>5 DEF Trade, Opens, PositionSide
  <1> HIDE DEF new
  <1>7. trades' = trades \/ trades' = Append(trades, new)
    BY DEF Placed, new
  <1>8. trades \in Seq(Trade) /\ stray \subseteq Id /\ earned \in Int
    BY DEF TypeOK
  <1>9. stray' = stray \/ stray' = stray \cup {MetadataText(OrderName(Now)), FromEvent(Now)}
    BY DEF Placed
  <1>10. earned' = earned
    BY DEF Placed
  <1>11. CASE trades' = trades
    BY <1>3, <1>8, <1>9, <1>10, <1>11 DEF Kept
  <1>12. CASE trades' = Append(trades, new)
    <2>1. trades' \in Seq(Trade) /\ \A k \in DOMAIN trades : k \in DOMAIN trades' /\ trades'[k] = trades[k]
      BY <1>6, <1>8, <1>12
    <2> QED BY <1>3, <1>8, <1>9, <1>10, <2>1 DEF Kept
  <1> QED BY <1>7, <1>11, <1>12

\* The trades a target stands for are trades of the instrument and side asked.
LEMMA TakenFromFound ==
  ASSUME IInv, pc = "close", NEW t \in targets, NEW k \in TakenFrom(t)
  PROVE  /\ k \in DOMAIN trades /\ trades[k].instrument = Now.instrument
         /\ trades[k].side = Closes(Now.side)
         /\ FromEvent(Now) # Blank => FromEvent(Now) \in TradeNames(trades, k)
  <1>1. CASE t = 0
    BY <1>1 DEF TakenFrom, OpenTrades, IInv, Found
  <1>2. CASE t # 0
    BY <1>2 DEF TakenFrom, IInv, Found
  <1> QED BY <1>1, <1>2

\* Closing units of a trade.
LEMMA TakenKept ==
  ASSUME TypeOK, NEW k \in DOMAIN trades, NEW f \in Nat, NEW amount \in Market,
         f <= trades[k].units, Taken(k, f, amount), stray' \subseteq Id
  PROVE  /\ Kept /\ DOMAIN trades' = DOMAIN trades
         /\ trades'[k].units = trades[k].units - f
         /\ \A i \in DOMAIN trades : i # k => trades'[i] = trades[i]
  <1>1. /\ trades \in Seq(Trade) /\ trades[k] \in Trade /\ stray \subseteq Id /\ earned \in Int
        /\ \A i \in DOMAIN trades : trades[i] \in Trade
    BY DEF TypeOK
  <1>2. trades[k].units \in Nat /\ trades[k].entry.amount \in Int
    BY <1>1 DEF Trade, Money
  <1>3. trades[k].units - f \in Nat
    BY <1>2
  <1> DEFINE less == [trades[k] EXCEPT !.units = @ - f]
  <1>4. /\ less \in Trade /\ less.units = trades[k].units - f
        /\ less.instrument = trades[k].instrument
        /\ less.side = trades[k].side /\ less.name = trades[k].name
        /\ less.entry = trades[k].entry
    BY <1>1, <1>3 DEF Trade
  <1>5. trades' = [trades EXCEPT ![k] = less]
    BY DEF Taken
  <1> HIDE DEF less
  <1>6. trades' \in Seq(Trade) /\ DOMAIN trades' = DOMAIN trades
    BY <1>1, <1>4, <1>5
  <1>7. trades'[k] = less /\ \A i \in DOMAIN trades : i # k => trades'[i] = trades[i]
    BY <1>1, <1>5
  <1>8. amount \in Int
    BY ExecutionAssumption
  <1>9. Profit(trades[k], amount, f) \in Int
    <2>1. amount - trades[k].entry.amount \in Int /\ trades[k].entry.amount - amount \in Int
      BY <1>2, <1>8
    <2> QED BY <2>1 DEF Profit
  <1>10. earned' \in Int
    BY <1>1, <1>9 DEF Taken
  <1> QED BY <1>4, <1>6, <1>7, <1>10 DEF Kept

-----------------------------------------------------------------------------
\* Steps of the execution.

\* Together, what such a step has to keep.
LEMMA ExecutionKeeps ==
  ASSUME IInv, Reported', Kept, Found', targets' \in SUBSET Nat,
         pc' \in {"execute", "close", "answer"}, batch' = batch,
         UNCHANGED <<mode, book, balance, calls, runs>>
  PROVE  IInv'
  <1>1. next' \in Nat /\ at' \in Nat
    BY DEF Reported, Place
  <1>2. TypeOK'
    BY <1>1 DEF TypeOK, IInv, Reported, Kept
  <1> QED BY <1>2 DEF IInv, Reported

\* An action that answers its request without the account.
LEMMA AnswerStep ==
  ASSUME IInv, pc \in {"execute", "close"}, NEW r, Responds(r), Answer(<<r>>), Kept
  PROVE  IInv'
  <1>1. Reported' /\ targets' = {} /\ pc' \in {"execute", "answer"}
    BY AnswerKeeps
  <1>2. batch' = batch /\ UNCHANGED <<mode, book, balance, calls, runs>>
    BY DEF Answer, tracker, bounds
  <1>3. Found'
    BY <1>1 DEF Found
  <1> QED BY <1>1, <1>2, <1>3, ExecutionKeeps

LEMMA HoldStep == ASSUME IInv, Hold PROVE IInv'
  <1>1. Reported' /\ targets' = {} /\ pc' \in {"execute", "answer"}
    BY HoldKeeps
  <1>2. batch' = batch /\ UNCHANGED <<mode, book, balance, calls, runs>>
    BY DEF Hold, Answer, tracker, bounds
  <1>3. Kept
    BY AccountKept DEF IInv, Hold
  <1>4. Found'
    BY <1>1 DEF Found
  <1> QED BY <1>1, <1>2, <1>3, <1>4, ExecutionKeeps

\* The execution of a request as a failure.
LEMMA FailStep ==
  ASSUME IInv, pc = "execute", RequiresBroker(Now), Fails, Kept
  PROVE  IInv'
  <1>1. Responds(Failure(next, Now))
    BY FailureResponds DEF IInv, Busy
  <1> QED BY <1>1, AnswerStep DEF Fails

LEMMA SimulateStep == ASSUME IInv, Simulate PROVE IInv'
  <1>1. pc = "execute" /\ Now.action \in {"open_trade", "close_trade"} /\ RequiresBroker(Now)
    BY DEF Simulate, Executing, RequiresBroker
  <1>2. TypeOK /\ Place /\ Now \in Request /\ ValidRequest(Now)
    BY <1>1, RequestNow DEF IInv, Busy
  <1>3. Now.units \in Nat /\ Now.side \in TradeSide
    BY <1>1, <1>2 DEF ValidRequest, Request
  <1>4. Kept
    BY <1>2, AccountKept DEF Simulate
  <1>5. PICK o \in Order : /\ Now.action = "open_trade" => o.name = OrderName(Now)
                           /\ Answer(<<Response(next, Now, o)>>)
    BY <1>2, <1>3, OrderTypes DEF Simulate, Executing
  <1>6. Responds(Response(next, Now, o))
    BY <1>1, <1>2, <1>5, OrderResponds DEF Busy
  <1> QED BY <1>1, <1>4, <1>5, <1>6, AnswerStep

LEMMA PlaceOrderStep == ASSUME IInv, PlaceOrder PROVE IInv'
  <1>1. pc = "execute" /\ Now.action = "open_trade" /\ RequiresBroker(Now)
    BY DEF PlaceOrder, Executing, RequiresBroker
  <1>2. TypeOK /\ Place /\ Now \in Request /\ ValidRequest(Now)
    BY <1>1, RequestNow DEF IInv, Busy
  <1>3. Now.units \in Nat /\ Now.side \in TradeSide /\ Now.instrument \in Instrument
    BY <1>1, <1>2 DEF ValidRequest, Request
  <1> DEFINE Order1(f, amount, says) ==
        [OpenOrder(Now) EXCEPT !.filled = f,
           !.status = IF f = Now.units THEN "filled" ELSE "cancelled",
           !.average = IF says /\ f > 0 THEN Price(Now.instrument, amount) ELSE None]
  <1>4. PICK f \in 0..Now.units, amount \in Market, says \in BOOLEAN :
          \/ Answer(<<Response(next, Now, Order1(f, amount, says))>>) /\ Placed(f, amount, says)
          \/ f > 0 /\ Fails /\ Placed(f, amount, FALSE)
    BY DEF PlaceOrder
  <1>5. Kept
    BY <1>1, <1>2, <1>4, PlacedKept
  <1>6. Order1(f, amount, says) \in Order /\ Order1(f, amount, says).name = OrderName(Now)
    <2>1. Price(Now.instrument, amount) \in Money
      BY <1>3, ModelsAssumption, ExecutionAssumption DEF Price, Money
    <2>2. OpenOrder(Now) \in Order /\ OpenOrder(Now).name = OrderName(Now)
      BY <1>2, <1>3, OrderTypes
    <2> DEFINE average == IF says /\ f > 0 THEN Price(Now.instrument, amount) ELSE None
               status == IF f = Now.units THEN "filled" ELSE "cancelled"
    <2>3. average \in Money \cup {None} /\ status \in OrderStatus /\ f \in Nat
      BY <1>3, <2>1 DEF OrderStatus
    <2> HIDE DEF average, status
    <2>4. Order1(f, amount, says) = [OpenOrder(Now) EXCEPT !.filled = f, !.status = status,
                                       !.average = average]
      BY DEF average, status
    <2> QED BY <2>2, <2>3, <2>4 DEF Order
  <1> HIDE DEF Order1
  <1>7. Responds(Response(next, Now, Order1(f, amount, says)))
    BY <1>1, <1>2, <1>6, OrderResponds DEF Busy
  <1> QED BY <1>1, <1>4, <1>5, <1>7, AnswerStep, FailStep

LEMMA FindTargetsStep == ASSUME IInv, FindTargets PROVE IInv'
  <1>1. /\ pc = "execute" /\ Now.action = "close_trade" /\ RequiresBroker(Now)
        /\ UNCHANGED account
    BY DEF FindTargets, Executing, RequiresBroker
  <1>2. TypeOK /\ Place /\ Faithful /\ Ordered /\ Answered
    BY DEF IInv
  <1>3. Kept
    BY <1>1, <1>2, AccountKept
  <1> DEFINE ks == IF FromEvent(Now) # Blank THEN MatchingTrades(trades, Now)
                   ELSE IF SideOpen(trades, Now.instrument, Closes(Now.side)) THEN {0} ELSE {}
  <1>4. CASE ks = {}
    <2>1. Fails BY <1>4 DEF FindTargets
    <2> QED BY <1>1, <1>3, <2>1, FailStep
  <1>5. CASE ks # {}
    <2>1. /\ pc' = "close" /\ targets' = ks
          /\ batch' = batch /\ next' = next /\ reports' = reports /\ at' = at
          /\ UNCHANGED <<mode, book, balance, calls, runs>>
      BY <1>5 DEF FindTargets, tracker, bounds
    <2>2. trades' = trades
      BY <1>1 DEF account
    <2>3. ks \in SUBSET Nat /\ \A k \in ks :
            IF k = 0 THEN FromEvent(Now) = Blank
            ELSE /\ k \in DOMAIN trades /\ trades[k].instrument = Now.instrument
                 /\ trades[k].side = Closes(Now.side)
                 /\ FromEvent(Now) \in TradeNames(trades, k)
      <3>1. \A k \in DOMAIN trades : k \in Nat \ {0}
        BY <1>2 DEF TypeOK
      <3> QED BY <3>1 DEF MatchingTrades, OpenTrades
    <2> HIDE DEF ks
    <2>4. Now' = Now
      BY <2>1 DEF Now
    <2>5. Found'
      BY <2>1, <2>2, <2>3, <2>4 DEF Found, TradeNames
    <2>6. Place'
      BY <1>1, <1>2, <1>5, <2>1, <2>4 DEF Place, Busy
    <2>7. Faithful'
      BY <1>2, <2>1 DEF Faithful
    <2>8. Ordered'
      BY <1>1, <1>2, <2>1 DEF Ordered, Busy
    <2>9. Answered'
      BY <1>1, <1>2, <2>1 DEF Answered, Busy
    <2>10. Reported'
      BY <1>2, <2>1, <2>6, <2>7, <2>8, <2>9 DEF Reported, TypeOK
    <2> QED BY <1>3, <2>1, <2>3, <2>5, <2>10, ExecutionKeeps
  <1> QED BY <1>4, <1>5

\* One target done with.
LEMMA CloseStep ==
  ASSUME IInv, pc = "close", NEW t \in targets, NEW r, Responds(r), Close(t, r), Kept
  PROVE  IInv'
  <1>1. /\ Reported' /\ targets' \subseteq targets /\ pc' \in {"close", "execute", "answer"}
        /\ targets' = {} \/ (batch' = batch /\ next' = next)
    BY CloseKeeps
  <1>2. Found'
    BY <1>1, FoundKept DEF IInv
  <1>3. batch' = batch /\ UNCHANGED <<mode, book, balance, calls, runs>>
    BY DEF Close, Answer, tracker, bounds
  <1>4. targets' \in SUBSET Nat
    BY <1>1 DEF IInv, TypeOK
  <1> QED BY <1>1, <1>2, <1>3, <1>4, ExecutionKeeps

LEMMA CloseRefusedStep == ASSUME IInv, CloseRefused PROVE IInv'
  <1>1. pc = "close" /\ TypeOK /\ Place
    BY DEF CloseRefused, IInv
  <1>2. RequiresBroker(Now)
    BY <1>1 DEF Place, RequiresBroker
  <1>3. Responds(Failure(next, Now))
    BY <1>1, <1>2, FailureResponds DEF Busy
  <1>4. Kept
    BY <1>1, AccountKept DEF CloseRefused
  <1>5. PICK t \in targets : Close(t, Failure(next, Now))
    BY DEF CloseRefused
  <1> QED BY <1>1, <1>3, <1>4, <1>5, CloseStep

\* The answer r to a close of f units of trade k: usable, when it says what was
\* closed of the trade that goes by the name asked, or else the name is stray.
Usable(t, k, f, amount, r) ==
  /\ stray' = stray /\ t # 0 /\ FromEvent(Now) = trades[k].name
  /\ r.order # None /\ r.order.filled = f
  /\ FillPrice(r.order) = Price(Now.instrument, amount)
Useless(k, r) ==
  /\ stray \subseteq stray' /\ trades[k].name \in stray'
  /\ r.order = None \/ FromEvent(Now) \in stray'

\* What a step of CloseTarget does to the account, and what it answers.
LEMMA CloseTargetDoes ==
  ASSUME IInv, CloseTarget
  PROVE  \E t \in targets : \E k \in TakenFrom(t), f \in 1..Now.units, r \in Report,
                             amount \in Market :
           /\ pc = "close" /\ Responds(r) /\ Close(t, r) /\ Kept
           /\ DOMAIN trades' = DOMAIN trades
           /\ f <= trades[k].units /\ Taken(k, f, amount)
           /\ trades'[k].units = trades[k].units - f
           /\ \A i \in DOMAIN trades : i # k => trades'[i] = trades[i]
           /\ Usable(t, k, f, amount, r) \/ Useless(k, r)
  <1>1. /\ pc = "close" /\ TypeOK /\ Place
    BY DEF CloseTarget, IInv
  <1>2. Now \in Request /\ ValidRequest(Now) /\ Now.action = "close_trade" /\ RequiresBroker(Now)
    BY <1>1, RequestNow DEF Place, Busy, RequiresBroker
  <1>3. Now.units \in Nat /\ Now.side \in TradeSide /\ Now.instrument \in Instrument
    BY <1>2 DEF ValidRequest, Request
  <1> DEFINE Order1(k, amount, f, says) ==
        [OpenOrder(Now) EXCEPT !.name = trades[k].name, !.status = "filled",
           !.units = f, !.filled = f, !.price = None,
           !.average = IF says THEN Price(Now.instrument, amount) ELSE None,
           !.realized = None]
  <1>4. PICK t \in targets : \E k \in TakenFrom(t), amount \in Market, f \in 1..Now.units,
                              says \in BOOLEAN :
          /\ f <= trades[k].units
          /\ Taken(k, f, amount)
          /\ \/ /\ Close(t, Response(next, Now, Order1(k, amount, f, says)))
                /\ stray' = IF says /\ t # 0 /\ FromEvent(Now) = trades[k].name
                            THEN stray ELSE stray \cup NamesOf({k}) \cup {FromEvent(Now)}
             \/ /\ Close(t, Failure(next, Now))
                /\ stray' = stray \cup NamesOf({k})
    BY DEF CloseTarget
  <1>5. PICK k \in TakenFrom(t), amount \in Market, f \in 1..Now.units, says \in BOOLEAN :
          /\ f <= trades[k].units
          /\ Taken(k, f, amount)
          /\ \/ /\ Close(t, Response(next, Now, Order1(k, amount, f, says)))
                /\ stray' = IF says /\ t # 0 /\ FromEvent(Now) = trades[k].name
                            THEN stray ELSE stray \cup NamesOf({k}) \cup {FromEvent(Now)}
             \/ /\ Close(t, Failure(next, Now))
                /\ stray' = stray \cup NamesOf({k})
    BY <1>4
  <1>6. k \in DOMAIN trades
    BY <1>1, TakenFromFound
  <1>7. /\ Kept /\ DOMAIN trades' = DOMAIN trades
        /\ trades'[k].units = trades[k].units - f
        /\ \A i \in DOMAIN trades : i # k => trades'[i] = trades[i]
    <2>1. f \in Nat
      BY <1>3
    <2>2. stray \subseteq Id /\ NamesOf({k}) \subseteq Id /\ FromEvent(Now) \in Id
      BY <1>1, <1>2, <1>6, NamesType, NameType DEF TypeOK
    <2>3. stray' \subseteq Id
      BY <1>5, <2>2
    <2> QED BY <1>1, <1>5, <1>6, <2>1, <2>3, TakenKept
  <1>8. /\ Order1(k, amount, f, says) \in Order /\ Order1(k, amount, f, says).filled = f
        /\ says => FillPrice(Order1(k, amount, f, says)) = Price(Now.instrument, amount)
    <2>1. Price(Now.instrument, amount) \in Money /\ Price(Now.instrument, amount) # None
      <3>1. Price(Now.instrument, amount) \in Money
        BY <1>3, ModelsAssumption, ExecutionAssumption DEF Price, Money
      <3> QED BY <3>1, NoneAssumption
    <2>2. OpenOrder(Now) \in Order
      BY <1>2, <1>3, OrderTypes
    <2>3. trades[k] \in Trade
      BY <1>1, <1>6 DEF TypeOK
    <2>4. trades[k].name \in Id
      BY <2>3 DEF Trade
    <2> DEFINE average == IF says THEN Price(Now.instrument, amount) ELSE None
    <2>5. average \in Money \cup {None} /\ f \in Nat /\ "filled" \in OrderStatus
          /\ (says => average = Price(Now.instrument, amount) /\ average # None)
      BY <1>3, <2>1 DEF OrderStatus
    <2> HIDE DEF average
    <2>6. Order1(k, amount, f, says) =
            [OpenOrder(Now) EXCEPT !.name = trades[k].name, !.status = "filled",
               !.units = f, !.filled = f, !.price = None, !.average = average,
               !.realized = None]
      BY DEF average
    <2>7. Order1(k, amount, f, says) \in Order /\ Order1(k, amount, f, says).filled = f
          /\ Order1(k, amount, f, says).average = average
      BY <2>2, <2>4, <2>5, <2>6, TextTypes DEF Order
    <2> QED BY <2>5, <2>7 DEF FillPrice
  <1> HIDE DEF Order1
  <1>9. /\ Responds(Response(next, Now, Order1(k, amount, f, says)))
        /\ Response(next, Now, Order1(k, amount, f, says)).order = Order1(k, amount, f, says)
        /\ Responds(Failure(next, Now)) /\ Failure(next, Now).order = None
    <2>1. next \in Nat BY <1>1, RequestNow DEF Busy
    <2> QED BY <1>1, <1>2, <1>8, <2>1, OrderResponds, FailureResponds, ResponseType
            DEF Busy, Failure
  <1>10. trades[k].name \in NamesOf({k})
    BY DEF NamesOf
  <1>11. CASE /\ Close(t, Response(next, Now, Order1(k, amount, f, says)))
              /\ stray' = IF says /\ t # 0 /\ FromEvent(Now) = trades[k].name
                          THEN stray ELSE stray \cup NamesOf({k}) \cup {FromEvent(Now)}
    <2>1. PICK r : r = Response(next, Now, Order1(k, amount, f, says))
      OBVIOUS
    <2>2. /\ r \in Report /\ Responds(r) /\ Close(t, r) /\ r.order = Order1(k, amount, f, says)
          /\ r.order # None
      BY <1>8, <1>9, <1>11, <2>1, NoneAssumption DEF Responds
    <2>3. Usable(t, k, f, amount, r) \/ Useless(k, r)
      BY <1>8, <1>10, <1>11, <2>2 DEF Usable, Useless
    <2> QED BY <1>1, <1>5, <1>7, <2>2, <2>3
  <1>12. CASE Close(t, Failure(next, Now)) /\ stray' = stray \cup NamesOf({k})
    <2>1. PICK r : r = Failure(next, Now)
      OBVIOUS
    <2>2. /\ r \in Report /\ Responds(r) /\ Close(t, r) /\ r.order = None
      BY <1>9, <1>12, <2>1 DEF Responds
    <2>3. Useless(k, r)
      BY <1>10, <1>12, <2>2 DEF Useless
    <2> QED BY <1>1, <1>5, <1>7, <2>2, <2>3
  <1> QED BY <1>5, <1>11, <1>12

LEMMA CloseTargetStep == ASSUME IInv, CloseTarget PROVE IInv'
  BY CloseTargetDoes, CloseStep

LEMMA ExecuteStep == ASSUME IInv, Execute PROVE IInv'
  <1>1. CASE Cancel \/ WithoutBroker \/ BrokerRaises
    <2>1. /\ pc = "execute" /\ RequiresBroker(Now) /\ Fails /\ UNCHANGED account
      BY <1>1 DEF Cancel, WithoutBroker, BrokerRaises, Executing, RequiresBroker
    <2>2. Kept
      BY <2>1, AccountKept DEF IInv
    <2> QED BY <2>1, <2>2, FailStep
  <1> QED BY <1>1, HoldStep, SimulateStep, PlaceOrderStep, FindTargetsStep,
             CloseTargetStep, CloseRefusedStep DEF Execute

-----------------------------------------------------------------------------
\* Steps after the execution, and between callbacks.

\* The responses stay as they are until the next callback.
LEMMA LaterKeeps ==
  ASSUME IInv, pc # "close", pc # "execute", pc' \in {"idle", "failed", "account"},
         pc' = "account" => pc \in {"answer", "account"}, at' \in Nat \ {0},
         UNCHANGED <<batch, next, reports, targets>>
  PROVE  Reported' /\ Found' /\ targets' \in SUBSET Nat
  <1>1. TypeOK /\ Place /\ Faithful /\ Ordered /\ Answered /\ targets = {}
    BY DEF IInv, Place
  <1>2. Place'
    BY <1>1 DEF Place, Busy
  <1>3. Faithful'
    BY <1>1 DEF Faithful
  <1>4. Ordered'
    BY <1>1 DEF Ordered, Busy
  <1>5. Answered'
    BY <1>1 DEF Answered, Busy
  <1> QED BY <1>1, <1>2, <1>3, <1>4, <1>5 DEF Reported, Found, TypeOK

LEMMA InitInv == Init => IInv
  <1> SUFFICES ASSUME Init PROVE IInv
    OBVIOUS
  <1>1. NoTrades \in [Name -> Open \cup {None}]
    BY DEF NoTrades
  <1>2. <<>> \in Seq(Report) /\ <<>> \in Seq(Trade) /\ Initial.amount \in Int
    BY ExecutionAssumption DEF Money
  <1>3. TypeOK
    BY <1>1, <1>2 DEF Init, TypeOK
  <1>4. DOMAIN reports = {} /\ DOMAIN batch = {}
    BY DEF Init
  <1> QED BY <1>3, <1>4 DEF Init, IInv, Place, Faithful, Ordered, Answered, Found, Busy

LEMMA EmitStep == ASSUME IInv, Emit PROVE IInv'
  <1>1. PICK b \in Batches : batch' = b
    BY DEF Emit
  <1>2. b \in Seq({e \in Request : ValidRequest(e)}) /\ b # <<>>
    BY ExecutionAssumption
  <1>3. 1 \in DOMAIN batch'
    BY <1>1, <1>2
  <1>4. /\ TypeOK /\ targets = {} /\ pc' = "publish" /\ next' = 1 /\ reports' = <<>> /\ at' = 1
        /\ calls' = calls + 1
        /\ UNCHANGED <<mode, targets, trades, book, balance, runs, stray, earned>>
    BY DEF Emit, IInv, Place
  <1>5. TypeOK'
    BY <1>1, <1>4 DEF TypeOK
  <1>6. Place'
    BY <1>1, <1>3, <1>4 DEF Place, Busy
  <1>7. DOMAIN reports' = {} /\ \A i \in DOMAIN batch' : i \in Nat \ {0}
    BY <1>1, <1>2, <1>4
  <1>8. Answered'
    BY <1>4, <1>7 DEF Answered
  <1> QED BY <1>4, <1>5, <1>6, <1>7, <1>8 DEF IInv, Faithful, Ordered, Found

LEMMA PublishStep == ASSUME IInv, Publish PROVE IInv'
  <1>1. /\ TypeOK /\ UNCHANGED <<mode, batch, next, targets, reports, at, book, balance, calls, runs>>
        /\ UNCHANGED account /\ at \in Nat \ {0}
    BY DEF Publish, IInv, Place, tracker, bounds
  <1>2. CASE pc = "answer"
    <2>1. Reported' /\ Found' /\ targets' \in SUBSET Nat
      BY <1>1, <1>2, LaterKeeps DEF Publish
    <2>2. pc' \in {"idle", "account"}
      BY <1>2 DEF Publish
    <2> QED BY <1>1, <2>1, <2>2 DEF IInv, Reported, TypeOK, account
  <1>3. CASE pc = "publish"
    <2>1. /\ pc' = "execute" /\ next = 1 /\ reports = <<>> /\ targets = {} /\ batch \in Batches
          /\ next \in DOMAIN batch
      BY <1>3 DEF Publish, IInv, Place, Busy
    <2>2. TypeOK'
      BY <1>1, <2>1 DEF TypeOK, account
    <2>3. Place'
      BY <1>1, <2>1 DEF Place, Busy
    <2>4. DOMAIN reports' = {}
      BY <1>1, <2>1
    <2>5. \A i \in DOMAIN batch : i \in Nat \ {0}
      BY <2>1, ExecutionAssumption
    <2>6. Answered'
      BY <1>1, <2>1, <2>5 DEF Answered
    <2> QED BY <1>1, <2>1, <2>2, <2>3, <2>4, <2>6 DEF IInv, Faithful, Ordered, Found
  <1> QED BY <1>2, <1>3 DEF Publish

\* What the tracker takes from a response keeps its types.
Books == [Name -> Open \cup {None}]

LEMMA RealizedType ==
  ASSUME NEW bk \in Books, NEW r \in Report, r.order # None
  PROVE  Realized(bk, r) \in Int
  <1>1. r.order \in Order
    BY DEF Report
  <1>2. CASE ~Booked(bk, r)
    BY <1>1, <1>2 DEF Realized, Order, Money
  <1>3. CASE Booked(bk, r)
    <2>1. FromEvent(r.event) \in Name
      BY <1>3, NameType DEF Booked, Report, Name
    <2>2. bk[FromEvent(r.event)] \in Open
      BY <1>3, <2>1 DEF Books, Booked
    <2>3. FillPrice(r.order) \in Money
      BY <1>1, <1>3, FillPriceType DEF Booked
    <2> DEFINE open == bk[FromEvent(r.event)]
               closed == IF r.order.filled < open.units THEN r.order.filled ELSE open.units
               diff == FillPrice(r.order).amount - open.entry.amount
    <2>4. closed \in Int /\ diff \in Int /\ 0 - diff \in Int
      BY <1>1, <2>2, <2>3 DEF Open, Order, Money
    <2> HIDE DEF closed, diff
    <2>5. closed * diff \in Int /\ closed * (0 - diff) \in Int
      BY <2>4
    <2>6. Realized(bk, r) \in {0, closed * diff, closed * (0 - diff)}
      BY <1>3 DEF Realized, closed, diff
    <2> QED BY <2>5, <2>6
  <1> QED BY <1>2, <1>3

LEMMA RecordOpenType ==
  ASSUME NEW bk \in Books, NEW r \in Report, r.order # None,
         r.event.action = "open_trade", ValidRequest(r.event)
  PROVE  RecordOpen(bk, r) \in Books
  <1>1. bk \in [Name -> Open \cup {None}] /\ r.order \in Order
    BY DEF Books, Report
  <1>2. CASE FromEvent(r.event) = Blank \/ FillPrice(r.order) = None
    BY <1>2 DEF RecordOpen
  <1>3. CASE ~(FromEvent(r.event) = Blank \/ FillPrice(r.order) = None)
    <2>1. FillPrice(r.order) \in Money
      BY <1>1, <1>3, FillPriceType
    <2>2. r.event.side \in TradeSide /\ r.order.filled \in Nat
      BY <1>1 DEF Report, Request, ValidRequest, Order
    <2> DEFINE open == [side |-> r.event.side, units |-> r.order.filled, entry |-> FillPrice(r.order)]
    <2>3. open \in Open
      BY <2>1, <2>2 DEF Open
    <2> HIDE DEF open
    <2>4. RecordOpen(bk, r) = [bk EXCEPT ![FromEvent(r.event)] = open]
      BY <1>3 DEF RecordOpen, open
    <2> QED BY <1>1, <2>3, <2>4 DEF Books
  <1> QED BY <1>2, <1>3

LEMMA ApplyCloseType ==
  ASSUME NEW bk \in Books, NEW r \in Report, r.order # None
  PROVE  ApplyClose(bk, r) \in Books
  <1>1. bk \in [Name -> Open \cup {None}] /\ r.order \in Order
    BY DEF Books, Report
  <1>2. CASE ~Booked(bk, r)
    BY <1>2 DEF ApplyClose
  <1>3. CASE Booked(bk, r)
    <2>1. FromEvent(r.event) \in Name
      BY <1>3, NameType DEF Booked, Report, Name
    <2> DEFINE open == bk[FromEvent(r.event)]
               left == [open EXCEPT !.units = @ - r.order.filled]
    <2>2. open \in Open /\ r.order.filled \in Nat /\ open.units \in Nat
      BY <1>1, <1>3, <2>1 DEF Booked, Order, Open
    <2>3. CASE r.order.filled >= open.units
      <3>1. ApplyClose(bk, r) = [bk EXCEPT ![FromEvent(r.event)] = None]
        BY <1>3, <2>3 DEF ApplyClose
      <3> QED BY <1>1, <3>1 DEF Books
    <2>4. CASE ~(r.order.filled >= open.units)
      <3>1. ApplyClose(bk, r) = [bk EXCEPT ![FromEvent(r.event)] = left]
        BY <1>3, <2>4 DEF ApplyClose
      <3>2. open.units - r.order.filled \in Nat
        BY <2>2, <2>4
      <3>3. left \in Open
        BY <2>2, <3>2 DEF Open
      <3> HIDE DEF left
      <3> QED BY <1>1, <3>1, <3>3 DEF Books
    <2> QED BY <2>3, <2>4
  <1> QED BY <1>2, <1>3

LEMMA AccountStep == ASSUME IInv, Account PROVE IInv'
  <1>1. /\ pc = "account" /\ at <= Len(reports) /\ at \in Nat \ {0} /\ at' = at + 1
        /\ UNCHANGED <<mode, batch, next, targets, reports, calls, runs>> /\ UNCHANGED account
        /\ TypeOK
    BY DEF Account, IInv, Place, bounds
  <1>2. reports[at] \in Report /\ at \in DOMAIN reports
    <2>1. at \in 1..Len(reports) /\ reports \in Seq(Report)
      BY <1>1 DEF TypeOK
    <2> QED BY <2>1
  <1>3. ValidRequest(reports[at].event)
    <2>1. reports[at].place \in DOMAIN batch /\ reports[at].event = batch[reports[at].place]
      BY <1>2 DEF IInv, Faithful
    <2> QED BY <1>1, <2>1, RequestNow DEF IInv, Busy
  <1>4. pc' \in {"account", "failed"}
    BY <1>1 DEF Account
  <1>5. Reported' /\ Found' /\ targets' \in SUBSET Nat
    BY <1>1, <1>4, LaterKeeps
  <1>6. book' \in [Name -> Open \cup {None}] /\ balance' \in Int
    <2> DEFINE r == reports[at]
    <2>1. \/ UNCHANGED tracker
          \/ IsFilled(r) /\ r.event.action = "open_trade" /\ book' = RecordOpen(book, r)
             /\ balance' = balance
          \/ IsFilled(r) /\ book' = ApplyClose(book, r)
             /\ balance' = balance + Realized(book, r)
      BY DEF Account
    <2>2. IsFilled(r) => r.order # None
      BY DEF IsFilled
    <2>3. CASE UNCHANGED tracker
      BY <1>1, <2>3 DEF tracker, TypeOK
    <2>4. book \in Books /\ balance \in Int
      BY <1>1 DEF TypeOK, Books
    <2>5. CASE IsFilled(r) /\ r.event.action = "open_trade" /\ book' = RecordOpen(book, r)
               /\ balance' = balance
      BY <1>2, <1>3, <2>2, <2>4, <2>5, RecordOpenType DEF Books
    <2>6. CASE IsFilled(r) /\ book' = ApplyClose(book, r)
               /\ balance' = balance + Realized(book, r)
      <3>1. Realized(book, r) \in Int /\ book' \in Books
        BY <1>2, <2>2, <2>4, <2>6, RealizedType, ApplyCloseType
      <3> QED BY <2>4, <2>6, <3>1 DEF Books
    <2> QED BY <2>1, <2>3, <2>5, <2>6
  <1>7. TypeOK'
    BY <1>1, <1>4, <1>5, <1>6 DEF TypeOK, Reported, account
  <1> QED BY <1>5, <1>7 DEF IInv, Reported

\* Settling and a raise leave all but the place in the call.
LEMMA EndStep == ASSUME IInv, Settle \/ Raise PROVE IInv'
  <1>1. /\ pc \in {"publish", "answer", "account"} /\ pc' \in {"idle", "failed"} /\ TypeOK
        /\ UNCHANGED <<mode, batch, next, targets, reports, at, book, balance, calls, runs>>
        /\ UNCHANGED account /\ at \in Nat \ {0}
    BY DEF Settle, Raise, IInv, Place, tracker, bounds
  <1>2. Reported' /\ Found' /\ targets' \in SUBSET Nat
    BY <1>1, LaterKeeps
  <1> QED BY <1>1, <1>2 DEF IInv, Reported, TypeOK, account

LEMMA StopOutStep == ASSUME IInv, StopOut PROVE IInv'
  <1>1. /\ TypeOK /\ Place /\ Faithful /\ Ordered /\ Answered /\ Found
        /\ UNCHANGED <<mode, pc, batch, next, targets, reports, at, book, balance, calls, runs, earned>>
    BY DEF StopOut, IInv, tracker, bounds
  <1>2. PICK k \in DOMAIN trades : /\ trades' = [trades EXCEPT ![k].units = 0]
                                   /\ stray' = stray \cup NamesOf({k})
    BY DEF StopOut
  <1> DEFINE closed == [trades[k] EXCEPT !.units = 0]
  <1>3. closed \in Trade /\ closed.instrument = trades[k].instrument
        /\ closed.side = trades[k].side /\ closed.name = trades[k].name
        /\ closed.entry = trades[k].entry
    <2>1. trades[k] \in Trade
      BY <1>1 DEF TypeOK
    <2> QED BY <2>1 DEF Trade
  <1>4. trades' = [trades EXCEPT ![k] = closed]
    BY <1>2
  <1> HIDE DEF closed
  <1>5. Kept
    <2>1. trades' \in Seq(Trade) /\ DOMAIN trades' = DOMAIN trades
      BY <1>1, <1>3, <1>4 DEF TypeOK
    <2>2. \A i \in DOMAIN trades : trades'[i] = IF i = k THEN closed ELSE trades[i]
      BY <1>4
    <2> QED BY <1>1, <1>2, <1>3, <2>1, <2>2, NamesType DEF Kept, TypeOK
  <1>6. Found'
    BY <1>1, <1>5, FoundKept
  <1>7. TypeOK'
    BY <1>1, <1>5 DEF TypeOK, Kept
  <1>8. Place' /\ Faithful' /\ Ordered' /\ Answered'
    BY <1>1 DEF Place, Now, Faithful, Ordered, Answered
  <1> QED BY <1>6, <1>7, <1>8 DEF IInv

LEMMA NewRunStep == ASSUME IInv, NewRun PROVE IInv'
  <1>1. /\ TypeOK /\ targets = {} /\ pc' = "idle" /\ batch' = <<>> /\ next' = 1
        /\ reports' = <<>> /\ at' = 1 /\ book' = NoTrades /\ balance' = Initial.amount
        /\ earned' = 0 /\ stray' = NamesOf(OpenOnes) /\ runs' = runs + 1
        /\ UNCHANGED <<mode, targets, trades, calls>>
    BY DEF NewRun, IInv, Place
  <1>2. NoTrades \in [Name -> Open \cup {None}]
    BY DEF NoTrades
  <1>3. stray' \subseteq Id
    BY <1>1, NamesType DEF OpenOnes
  <1>4. Initial.amount \in Int /\ runs + 1 \in Nat
    BY <1>1, ExecutionAssumption DEF Money, TypeOK
  <1>5. TypeOK'
    BY <1>1, <1>2, <1>3, <1>4 DEF TypeOK
  <1>6. DOMAIN reports' = {} /\ DOMAIN batch' = {}
    BY <1>1
  <1> QED BY <1>1, <1>5, <1>6 DEF IInv, Place, Busy, Faithful, Ordered, Answered, Found

-----------------------------------------------------------------------------
\* The theorems.

LEMMA NextInv == IInv /\ [Next]_vars => IInv'
  <1> SUFFICES ASSUME IInv, [Next]_vars PROVE IInv'
    OBVIOUS
  <1>1. CASE Next
    BY <1>1, EmitStep, ExecuteStep, PublishStep, AccountStep, EndStep, StopOutStep, NewRunStep
       DEF Next, Process
  <1>2. CASE UNCHANGED vars
    BY <1>2 DEF vars, account, IInv, TypeOK, Place, Faithful, Ordered, Answered, Found, Now,
               TradeNames
  <1> QED BY <1>1, <1>2

\* The invariant holds always.
THEOREM Invariance == Spec => []IInv
  BY InitInv, NextInv, PTL DEF Spec

\* The variables of process_result, the broker's account and the tracker keep
\* their types, whatever the broker answers.
THEOREM TypesHold == Spec => []TypeOK
  <1>1. IInv => TypeOK
    BY DEF IInv
  <1> QED BY <1>1, Invariance, PTL

\* execute_many answers every request that needs the broker, in order.
THEOREM EveryRequestAnsweredHolds == Spec => []EveryRequestAnswered
  <1>1. IInv => EveryRequestAnswered
    <2> SUFFICES ASSUME IInv, pc \in {"answer", "account"}
                 PROVE  /\ \A i \in DOMAIN batch :
                             RequiresBroker(batch[i])
                               <=> \E j \in DOMAIN reports : reports[j].place = i
                        /\ \A j, k \in DOMAIN reports :
                             j < k => reports[j].place <= reports[k].place
      BY DEF EveryRequestAnswered
    <2>1. \A i \in DOMAIN batch : RequiresBroker(batch[i])
                                    => \E j \in DOMAIN reports : reports[j].place = i
      BY DEF IInv, Answered, Busy
    <2>2. \A j \in DOMAIN reports : RequiresBroker(batch[reports[j].place])
      BY DEF IInv, Faithful
    <2> QED BY <2>1, <2>2 DEF IInv, Ordered
  <1> QED BY <1>1, Invariance, PTL

\* A later close finds on the order of an open request the name it resolves, for
\* all texts and all requests that the two rules do not name apart.
THEOREM NamesAgreeHolds == Spec => []NamesAgree
  <1>1. IInv => NamesAgree
    <2> SUFFICES ASSUME IInv, NEW j \in DOMAIN reports, IsFilled(reports[j]),
                        reports[j].event.action = "open_trade", Unambiguous(reports[j].event)
                 PROVE  MetadataText(reports[j].order.name) = FromEvent(reports[j].event)
      BY DEF NamesAgree
    <2>1. reports[j].order.name = OrderName(reports[j].event)
      BY DEF IInv, Faithful, IsFilled
    <2>2. reports[j].event \in Request
      BY PlaceType DEF IInv, TypeOK, Report
    <2> QED BY <2>1, <2>2, RulesAgree
  <1> QED BY <1>1, Invariance, PTL

\* A step that answers a request and changes a trade is a close of the trade.
LEMMA OnlyAsked ==
  ASSUME IInv, [Next]_vars, reports' # reports, NEW k \in DOMAIN trades,
         trades'[k] # trades[k]
  PROVE  /\ Now.action = "close_trade" /\ trades[k].instrument = Now.instrument
         /\ trades[k].side = Closes(Now.side)
         /\ trades[k].units - trades'[k].units \in 1..Now.units
         /\ FromEvent(Now) # Blank => FromEvent(Now) \in TradeNames(trades, k)
  <1>1. CloseTarget
    <2>1. ~UNCHANGED account /\ ~UNCHANGED vars
      BY DEF account, vars
    <2>2. ~StopOut /\ ~Emit /\ ~NewRun
      BY DEF StopOut, Emit, NewRun
    <2>3. ~PlaceOrder
      <3> SUFFICES ASSUME PlaceOrder PROVE FALSE
        OBVIOUS
      <3>1. PICK f \in 0..Now.units, amount \in Market, known \in BOOLEAN :
              Placed(f, amount, known)
        BY DEF PlaceOrder
      <3>2. trades \in Seq(Trade)
        BY DEF IInv, TypeOK
      <3>3. PICK x : trades' = trades \/ trades' = Append(trades, x)
        BY <3>1 DEF Placed
      <3> QED BY <3>2, <3>3
    <2>4. Publish \/ Account \/ Settle \/ Raise \/ Execute
      BY <2>1, <2>2 DEF Next, Process
    <2> QED BY <2>1, <2>3, <2>4 DEF Publish, Account, Settle, Raise, Execute, Hold, Cancel,
               Simulate, WithoutBroker, BrokerRaises, FindTargets, CloseRefused
  <1>2. PICK t \in targets : \E i \in TakenFrom(t), f \in 1..Now.units :
          /\ pc = "close"
          /\ trades'[i].units = trades[i].units - f
          /\ \A x \in DOMAIN trades : x # i => trades'[x] = trades[x]
    BY <1>1, CloseTargetDoes
  <1>3. PICK i \in TakenFrom(t), f \in 1..Now.units :
          /\ pc = "close"
          /\ trades'[i].units = trades[i].units - f
          /\ \A x \in DOMAIN trades : x # i => trades'[x] = trades[x]
    BY <1>2
  <1>4. i = k
    BY <1>3
  <1>5. /\ trades[k].instrument = Now.instrument /\ trades[k].side = Closes(Now.side)
        /\ FromEvent(Now) # Blank => FromEvent(Now) \in TradeNames(trades, k)
    BY <1>3, <1>4, TakenFromFound
  <1>6. Now.action = "close_trade"
    BY <1>3 DEF IInv, Place
  <1>7. trades[k].units \in Nat /\ f \in Int
    <2>1. trades[k] \in Trade
      BY DEF IInv, TypeOK
    <2> QED BY <2>1 DEF Trade
  <1>8. trades[k].units - trades'[k].units = f
    BY <1>3, <1>4, <1>7
  <1> QED BY <1>3, <1>5, <1>6, <1>8

\* A response changes the broker's trades of its request alone.
THEOREM ClosesWhatWasAskedHolds == Spec => ClosesWhatWasAsked
  <1>1. IInv /\ [Next]_vars =>
          [reports' # reports => \A k \in DOMAIN trades : trades'[k] # trades[k] =>
             /\ Now.action = "close_trade" /\ trades[k].instrument = Now.instrument
             /\ trades[k].side = Closes(Now.side)
             /\ trades[k].units - trades'[k].units \in 1..Now.units
             /\ FromEvent(Now) # Blank => FromEvent(Now) \in TradeNames(trades, k)]_vars
    BY OnlyAsked
  <1> QED BY <1>1, Invariance, PTL DEF Spec, ClosesWhatWasAsked

-----------------------------------------------------------------------------
\* The tracker follows the broker.

\* What one response does to the tracker.
Tracker == [book : Books, balance : Int]
After(s, r) ==
  IF ~IsFilled(r) THEN s
  ELSE IF r.event.action = "open_trade"
  THEN [book |-> RecordOpen(s.book, r), balance |-> s.balance]
  ELSE [book |-> ApplyClose(s.book, r), balance |-> s.balance + Realized(s.book, r)]

\* The tracker after each response, from the ones accounted to the last.
Leads(path) ==
  /\ path \in [0..Len(reports) -> Tracker]
  /\ path[at - 1] = [book |-> book, balance |-> balance]
  /\ \A j \in at..Len(reports) : path[j] = After(path[j - 1], reports[j])

\* What a tracker has to say of the broker's account.
OpenOf(n) == {k \in OpenOnes : trades[k].name = n}
AgreesAt(bk, n) ==
  IF bk[n] = None THEN OpenOf(n) = {}
  ELSE \E k \in OpenOf(n) : /\ OpenOf(n) = {k}
                            /\ bk[n].units = trades[k].units
                            /\ Opens(bk[n].side) = trades[k].side
                            /\ bk[n].entry = trades[k].entry
Follows(s) ==
  /\ \A n \in Name \ stray : AgreesAt(s.book, n)
  /\ stray = {} => s.balance = Initial.amount + earned

\* All responses are accounted when no call is under way, none before all are
\* there; and once they are all accounted the tracker follows the broker.
Turn ==
  /\ at \in 1..(Len(reports) + 1)
  /\ pc \in {"publish", "execute", "close", "answer"} => at = 1
  /\ pc = "idle" => at = Len(reports) + 1
Followed ==
  mode = "live" /\ pc # "failed" =>
    \E path, s : Leads(path) /\ s = path[Len(reports)] /\ Follows(s)
FollowInv == Turn /\ Followed

LEMMA LenReports == TypeOK => Len(reports) \in Nat /\ DOMAIN reports = 1..Len(reports)
  BY DEF TypeOK

LEMMA AfterType ==
  ASSUME NEW s \in Tracker, NEW r \in Report, ValidRequest(r.event)
  PROVE  After(s, r) \in Tracker
  <1>1. s.book \in Books /\ s.balance \in Int
    BY DEF Tracker
  <1>2. CASE ~IsFilled(r)
    BY <1>2 DEF After
  <1>3. CASE IsFilled(r) /\ r.event.action = "open_trade"
    <2>1. RecordOpen(s.book, r) \in Books
      BY <1>1, <1>3, RecordOpenType DEF IsFilled
    <2> QED BY <1>1, <1>3, <2>1 DEF After, Tracker
  <1>4. CASE IsFilled(r) /\ r.event.action # "open_trade"
    <2>1. ApplyClose(s.book, r) \in Books /\ Realized(s.book, r) \in Int
      BY <1>1, <1>4, ApplyCloseType, RealizedType DEF IsFilled
    <2> QED BY <1>1, <1>4, <2>1 DEF After, Tracker
  <1> QED BY <1>2, <1>3, <1>4

\* One more response is one more step at the end.
LEMMA LeadsFurther ==
  ASSUME TypeOK, Turn, NEW path, Leads(path), NEW r \in Report, ValidRequest(r.event),
         reports' = Append(reports, r), UNCHANGED <<at, book, balance>>
  PROVE  \E p : Leads(p)' /\ p[Len(reports')] = After(path[Len(reports)], r)
  <1> DEFINE n == Len(reports)
             s == After(path[n], r)
             p == [j \in 0..(n + 1) |-> IF j = n + 1 THEN s ELSE path[j]]
  <1>1. /\ n \in Nat /\ reports \in Seq(Report) /\ at \in 1..(n + 1)
        /\ path \in [0..n -> Tracker]
    BY LenReports DEF TypeOK, Turn, Leads
  <1>2. /\ Len(reports') = n + 1 /\ reports'[n + 1] = r
        /\ \A j \in 1..n : reports'[j] = reports[j]
    BY <1>1
  <1>3. s \in Tracker
    <2>1. path[n] \in Tracker BY <1>1
    <2> QED BY <2>1, AfterType
  <1> HIDE DEF n, s
  <1>4. p \in [0..(n + 1) -> Tracker]
    BY <1>1, <1>3
  <1>5. p[n + 1] = s /\ \A j \in 0..n : p[j] = path[j]
    BY <1>1
  <1> HIDE DEF p
  <1>6. p[at - 1] = [book |-> book, balance |-> balance]
    BY <1>1, <1>5 DEF Leads
  <1>7. ASSUME NEW j \in at..(n + 1) PROVE p[j] = After(p[j - 1], reports'[j])
    <2>1. CASE j = n + 1
      BY <1>1, <1>2, <1>5, <2>1 DEF s, n
    <2>2. CASE j # n + 1
      <3>1. j \in at..n /\ j \in 0..n /\ j - 1 \in 0..n /\ j \in 1..n
        BY <1>1, <2>2
      <3>2. path[j] = After(path[j - 1], reports[j])
        BY <3>1 DEF Leads, n
      <3> QED BY <1>2, <1>5, <3>1, <3>2
    <2> QED BY <2>1, <2>2
  <1>8. PICK q : q = p
    OBVIOUS
  <1>9. Leads(q)'
    BY <1>2, <1>4, <1>6, <1>7, <1>8 DEF Leads
  <1>10. q[Len(reports')] = After(path[Len(reports)], r)
    BY <1>2, <1>5, <1>8 DEF s, n
  <1> QED BY <1>9, <1>10

\* Accounting a response goes one step on.
LEMMA LeadsOn ==
  ASSUME IInv, Turn, NEW path, Leads(path), Account, pc' = "account"
  PROVE  Leads(path)' /\ UNCHANGED reports
  <1> DEFINE r == reports[at]
             s == path[at - 1]
  <1>1. /\ at \in 1..Len(reports) /\ at' = at + 1 /\ reports' = reports
        /\ Len(reports) \in Nat /\ book \in Books /\ balance \in Int
    BY LenReports DEF Account, Turn, IInv, TypeOK, Books
  <1>2. s = [book |-> book, balance |-> balance] /\ path[at] = After(s, r)
    BY <1>1 DEF Leads
  <1>3. s.book = book /\ s.balance = balance
    BY <1>2
  <1>4. After(s, r) = [book |-> book', balance |-> balance']
    <2> HIDE DEF s, r
    <2>1. CASE ~IsFilled(r)
      <3>1. book' = book /\ balance' = balance
        BY <2>1 DEF Account, tracker, r
      <3> QED BY <1>2, <2>1, <3>1 DEF After
    <2>2. CASE IsFilled(r) /\ r.event.action = "open_trade"
      <3>1. book' = RecordOpen(book, r) /\ balance' = balance
        BY <2>2 DEF Account, r
      <3> QED BY <1>3, <2>2, <3>1 DEF After
    <2>3. CASE IsFilled(r) /\ r.event.action # "open_trade"
      <3>1. book' = ApplyClose(book, r) /\ balance' = balance + Realized(book, r)
        BY <2>3 DEF Account, r
      <3> QED BY <1>3, <2>3, <3>1 DEF After
    <2> QED BY <2>1, <2>2, <2>3
  <1>5. path[at' - 1] = [book |-> book', balance |-> balance']
    BY <1>1, <1>2, <1>4
  <1> QED BY <1>1, <1>5 DEF Leads

-----------------------------------------------------------------------------
\* What a change of the account means for a name.

LEMMA AgreesFrame ==
  ASSUME NEW bk, NEW cb, NEW n, AgreesAt(bk, n), cb[n] = bk[n], OpenOf(n)' = OpenOf(n),
         \A k \in OpenOf(n) : trades'[k] = trades[k]
  PROVE  AgreesAt(cb, n)'
  BY DEF AgreesAt

\* The trades of other names stay when one trade is changed, or one is added.
LEMMA OthersStay ==
  ASSUME TypeOK, Kept, DOMAIN trades' = DOMAIN trades, NEW k \in DOMAIN trades,
         \A i \in DOMAIN trades : i # k => trades'[i] = trades[i],
         NEW n, n # trades[k].name
  PROVE  OpenOf(n)' = OpenOf(n) /\ \A i \in OpenOf(n) : trades'[i] = trades[i]
  <1>1. trades'[k].name = trades[k].name
    BY DEF Kept
  <1> QED BY <1>1 DEF OpenOf, OpenOnes

LEMMA AddedStay ==
  ASSUME TypeOK, NEW x \in Trade, trades' = Append(trades, x), NEW n, n # x.name
  PROVE  OpenOf(n)' = OpenOf(n) /\ \A i \in OpenOf(n) : trades'[i] = trades[i]
  <1>1. /\ trades \in Seq(Trade) /\ Len(trades) \in Nat
        /\ DOMAIN trades = 1..Len(trades)
    BY DEF TypeOK
  <1>2. /\ DOMAIN trades' = 1..(Len(trades) + 1) /\ trades'[Len(trades) + 1] = x
        /\ \A i \in 1..Len(trades) : trades'[i] = trades[i]
    BY <1>1
  <1> QED BY <1>1, <1>2 DEF OpenOf, OpenOnes

LEMMA AddedAlone ==
  ASSUME TypeOK, NEW x \in Trade, trades' = Append(trades, x), x.units > 0,
         x.name \notin NamesOf(OpenOnes)
  PROVE  OpenOf(x.name)' = {Len(trades) + 1} /\ trades'[Len(trades) + 1] = x
  <1>1. /\ trades \in Seq(Trade) /\ Len(trades) \in Nat
        /\ DOMAIN trades = 1..Len(trades)
    BY DEF TypeOK
  <1>2. /\ DOMAIN trades' = 1..(Len(trades) + 1) /\ trades'[Len(trades) + 1] = x
        /\ \A i \in 1..Len(trades) : trades'[i] = trades[i]
    BY <1>1
  <1>3. \A i \in OpenOnes : trades[i].name # x.name
    BY DEF NamesOf
  <1> QED BY <1>1, <1>2, <1>3 DEF OpenOf, OpenOnes, IsOpen

\* A response that is filled changes the book at the name of its request alone.
LEMMA BookElsewhere ==
  ASSUME NEW s, NEW r, NEW n, n # FromEvent(r.event)
  PROVE  After(s, r).book[n] = s.book[n]
  <1>1. RecordOpen(s.book, r)[n] = s.book[n]
    BY DEF RecordOpen
  <1>2. ApplyClose(s.book, r)[n] = s.book[n]
    BY DEF ApplyClose
  <1> QED BY <1>1, <1>2 DEF After

\* The broker places an order, and the response says so or does not.
PlacedAs(f, amount, known, r) ==
  IF known /\ f > 0
  THEN /\ r.event = Now /\ r.order # None /\ r.order.filled = f
       /\ FillPrice(r.order) = Price(Now.instrument, amount)
  ELSE ~IsFilled(r) \/ (r.event = Now /\ f > 0)

LEMMA PlacedFollows ==
  ASSUME TypeOK, Place, pc = "execute", Now.action = "open_trade",
         NEW f \in 0..Now.units, NEW amount \in Market, NEW known \in BOOLEAN,
         Placed(f, amount, known), NEW r \in Report, PlacedAs(f, amount, known, r),
         NEW s \in Tracker, Follows(s)
  PROVE  Follows(After(s, r))'
  <1> DEFINE name == MetadataText(OrderName(Now))
             id == FromEvent(Now)
             ambiguous == ~Unambiguous(Now) \/ name \in NamesOf(OpenOnes)
             x == [instrument |-> Now.instrument, side |-> Opens(Now.side), units |-> f,
                   entry |-> Price(Now.instrument, amount), name |-> name]
  <1>1. /\ trades' = IF f = 0 THEN trades ELSE Append(trades, x)
        /\ stray' = IF f > 0 /\ (~known \/ ambiguous) THEN stray \cup {name, id} ELSE stray
        /\ earned' = earned
    BY DEF Placed
  <1>2. /\ Now \in Request /\ Now.side \in TradeSide /\ Now.units \in Nat
        /\ Now.instrument \in Instrument /\ f \in Nat
    BY RequestNow DEF Busy, Request, ValidRequest
  <1>3. x \in Trade /\ x.name = name /\ x.units = f /\ x.entry = Price(Now.instrument, amount)
        /\ x.side = Opens(Now.side) /\ x.entry \in Money
    <2>1. name \in Id
      BY <1>2, NameType
    <2>2. Price(Now.instrument, amount) \in Money
      BY <1>2, ModelsAssumption, ExecutionAssumption DEF Price, Money
    <2> QED BY <1>2, <2>1, <2>2 DEF Trade, Opens, PositionSide
  <1>4. r.event = Now => After(s, r).balance = s.balance
    BY DEF After
  <1>5. ~IsFilled(r) => After(s, r) = s
    BY DEF After
  <1>6. stray \subseteq stray'
    BY <1>1
  <1>7. PICK a : a = After(s, r)
    OBVIOUS
  <1>8. a.balance = s.balance
    BY <1>4, <1>5, <1>7 DEF PlacedAs
  <1>9. \A n : n # id => a.book[n] = s.book[n]
    BY <1>5, <1>7, BookElsewhere DEF PlacedAs
  <1> HIDE DEF x, name, id
  <1>10. ASSUME NEW n \in Name \ stray' PROVE AgreesAt(a.book, n)'
    <2>1. AgreesAt(s.book, n)
      BY <1>6 DEF Follows
    <2>2. CASE f = 0
      <3>1. a = s
        BY <1>2, <1>5, <1>7, <2>2 DEF PlacedAs
      <3>2. trades' = trades
        BY <1>1, <2>2
      <3> QED BY <2>1, <3>1, <3>2 DEF AgreesAt, OpenOf, OpenOnes
    <2>3. CASE f > 0 /\ n # id /\ n # name
      <3>1. trades' = Append(trades, x) /\ n # x.name
        BY <1>1, <1>3, <2>3
      <3>2. OpenOf(n)' = OpenOf(n) /\ \A i \in OpenOf(n) : trades'[i] = trades[i]
        BY <1>3, <3>1, AddedStay
      <3>3. a.book[n] = s.book[n]
        BY <1>9, <2>3
      <3> QED BY <2>1, <3>2, <3>3, AgreesFrame
    <2>4. CASE f > 0 /\ (n = id \/ n = name)
      <3>1. known /\ ~ambiguous
        BY <1>1, <2>4
      <3>2. name = id /\ n = name /\ name \notin NamesOf(OpenOnes)
        BY <1>2, <2>4, <3>1, RulesAgree DEF name, id
      <3>3. OpenOf(n)' = {Len(trades) + 1} /\ trades'[Len(trades) + 1] = x
        <4>1. PICK y \in Trade : y = x
          BY <1>3
        <4>2. y.name = n /\ y.units > 0 /\ trades' = Append(trades, y)
          BY <1>1, <1>3, <2>4, <3>2, <4>1
        <4>3. OpenOf(y.name)' = {Len(trades) + 1} /\ trades'[Len(trades) + 1] = y
          BY <3>2, <4>2, AddedAlone
        <4> QED BY <4>1, <4>2, <4>3
      <3>4. /\ r.event = Now /\ r.order # None /\ r.order.filled = f
            /\ FillPrice(r.order) = x.entry
        BY <1>3, <2>4, <3>1 DEF PlacedAs
      <3>5. IsFilled(r) /\ FillPrice(r.order) # None /\ id # Blank
        BY <1>3, <2>4, <3>2, <3>4, NoneAssumption DEF IsFilled, Name
      <3>6. a.book = [s.book EXCEPT ![id] = [side |-> Now.side, units |-> f, entry |-> x.entry]]
        BY <1>7, <3>4, <3>5 DEF After, RecordOpen, id
      <3> DEFINE o == [side |-> Now.side, units |-> f, entry |-> x.entry]
      <3>7. o \in Open /\ o.side = Now.side /\ o.units = f /\ o.entry = x.entry
        BY <1>2, <1>3 DEF Open
      <3> HIDE DEF o
      <3>8. a.book[n] = o
        <4>1. s.book \in Books BY DEF Tracker
        <4> QED BY <3>2, <3>6, <4>1 DEF Books, o
      <3>9. o # None
        BY <3>7, ExecutionAssumption
      <3> QED BY <1>3, <3>3, <3>7, <3>8, <3>9 DEF AgreesAt
    <2> QED BY <1>2, <2>2, <2>3, <2>4
  <1>11. stray' = {} => a.balance = Initial.amount + earned'
    BY <1>1, <1>6, <1>8 DEF Follows
  <1>12. Follows(a)'
    BY <1>10, <1>11 DEF Follows
  <1> QED BY <1>7, <1>12

\* The broker closes units of a trade.
LEMMA TakenFollows ==
  ASSUME IInv, pc = "close", NEW t \in targets, NEW k \in TakenFrom(t),
         NEW f \in 1..Now.units, NEW amount \in Market, NEW r \in Report, Responds(r),
         f <= trades[k].units, Taken(k, f, amount), Kept, DOMAIN trades' = DOMAIN trades,
         trades'[k].units = trades[k].units - f,
         \A i \in DOMAIN trades : i # k => trades'[i] = trades[i],
         Usable(t, k, f, amount, r) \/ Useless(k, r),
         NEW s \in Tracker, Follows(s)
  PROVE  Follows(After(s, r))'
  <1>0. PICK id : id = FromEvent(Now)
    OBVIOUS
  <1>1. /\ TypeOK /\ Place /\ k \in DOMAIN trades /\ r.event = Now
        /\ Now.action = "close_trade"
    BY TakenFromFound DEF IInv, Place, Responds
  <1>2. /\ trades[k] \in Trade /\ trades[k].units \in Nat /\ f \in Nat \ {0}
        /\ Now \in Request /\ Now.units \in Nat
    <2>1. Now \in Request /\ Now.units \in Nat
      BY <1>1, RequestNow DEF Busy, ValidRequest, Request
    <2>2. trades[k] \in Trade
      BY <1>1 DEF TypeOK
    <2> QED BY <2>1, <2>2 DEF Trade
  <1>3. PICK a : a = After(s, r)
    OBVIOUS
  <1>4. \A n : n # id => a.book[n] = s.book[n]
    BY <1>0, <1>1, <1>3, BookElsewhere
  <1>5. stray \subseteq stray'
    BY DEF Usable, Useless
  <1>6. ASSUME NEW n \in Name \ stray', n # trades[k].name, a.book[n] = s.book[n]
        PROVE  AgreesAt(a.book, n)'
    <2>1. AgreesAt(s.book, n)
      BY <1>5 DEF Follows
    <2>2. OpenOf(n)' = OpenOf(n) /\ \A i \in OpenOf(n) : trades'[i] = trades[i]
      BY <1>1, <1>6, OthersStay
    <2> QED BY <1>6, <2>1, <2>2, AgreesFrame
  <1>7. CASE Useless(k, r)
    <2>1. ASSUME NEW n \in Name \ stray' PROVE AgreesAt(a.book, n)'
      <3>1. n # trades[k].name
        BY <1>7 DEF Useless
      <3>2. a.book[n] = s.book[n]
        <4>1. CASE r.order = None
          BY <1>3, <4>1 DEF After, IsFilled
        <4>2. CASE id \in stray'
          BY <1>4, <4>2
        <4> QED BY <1>0, <1>7, <4>1, <4>2 DEF Useless
      <3> QED BY <1>6, <3>1, <3>2
    <2>2. stray' # {}
      BY <1>7 DEF Useless
    <2>3. Follows(a)'
      BY <2>1, <2>2 DEF Follows
    <2> QED BY <1>3, <2>3
  <1>8. CASE Usable(t, k, f, amount, r)
    <2>1. /\ stray' = stray /\ id = trades[k].name /\ id # Blank /\ id \in Id
          /\ r.order # None /\ r.order.filled = f /\ IsFilled(r)
          /\ FillPrice(r.order) = Price(Now.instrument, amount)
          /\ FillPrice(r.order) # None /\ FillPrice(r.order).amount = amount
      <3>1. id \in TradeNames(trades, k)
        BY <1>0, <1>8 DEF Usable, TakenFrom, IInv, Found
      <3>2. id # Blank /\ id \in Id
        BY <1>0, <1>2, <3>1, NameType DEF TradeNames
      <3>3. Price(Now.instrument, amount) \in Money /\ Price(Now.instrument, amount).amount = amount
        BY <1>2, ModelsAssumption, ExecutionAssumption DEF Price, Money, Request
      <3> QED BY <1>0, <1>2, <1>8, <3>2, <3>3, NoneAssumption DEF Usable, IsFilled
    <2>2. CASE id \in stray
      <3>1. ASSUME NEW n \in Name \ stray' PROVE AgreesAt(a.book, n)'
        <4>1. n # id
          BY <2>1, <2>2
        <4> QED BY <1>4, <1>6, <2>1, <4>1
      <3>2. Follows(a)'
        BY <2>1, <2>2, <3>1 DEF Follows
      <3> QED BY <1>3, <3>2
    <2>3. CASE id \notin stray
      <3>1. id \in Name /\ AgreesAt(s.book, id)
        BY <2>1, <2>3 DEF Follows, Name
      <3>2. k \in OpenOf(id)
        BY <1>1, <1>2, <2>1 DEF OpenOf, OpenOnes, IsOpen
      <3> DEFINE o == s.book[id]
      <3>3. /\ o # None /\ o \in Open /\ OpenOf(id) = {k} /\ o.units = trades[k].units
            /\ Opens(o.side) = trades[k].side /\ o.entry = trades[k].entry
        BY <3>1, <3>2 DEF AgreesAt, Tracker, Books
      <3>4. Booked(s.book, r)
        BY <1>0, <1>1, <2>1, <3>3 DEF Booked
      <3>5. a = [book |-> ApplyClose(s.book, r), balance |-> s.balance + Realized(s.book, r)]
        BY <1>1, <1>3, <2>1 DEF After
      <3>6. Realized(s.book, r) = IF trades[k].entry.currency = Initial.currency
                                  THEN Profit(trades[k], amount, f) ELSE 0
        <4> DEFINE diff == amount - o.entry.amount
        <4>1. (IF r.order.filled < o.units THEN r.order.filled ELSE o.units) = f
          BY <1>2, <2>1, <3>3
        <4>2. Realized(s.book, r) =
                IF o.entry.currency # Initial.currency THEN 0
                ELSE f * (IF o.side = "buy" THEN diff ELSE 0 - diff)
          BY <1>0, <1>1, <2>1, <3>4, <4>1 DEF Realized
        <4>3. amount \in Int /\ o.entry.amount \in Int
          BY <3>3, ExecutionAssumption DEF Open, Money
        <4>4. 0 - diff = o.entry.amount - amount
          BY <4>3
        <4>5. (o.side = "buy") <=> (trades[k].side = "long")
          BY <3>3 DEF Opens
        <4>6. Profit(trades[k], amount, f) = f * (IF o.side = "buy" THEN diff ELSE 0 - diff)
          BY <3>3, <4>4, <4>5 DEF Profit
        <4> HIDE DEF diff, o
        <4> QED BY <3>3, <4>2, <4>6
      <3>7. stray' = {} => a.balance = Initial.amount + earned'
        <4>1. earned' = earned + Realized(s.book, r)
          BY <3>6 DEF Taken
        <4>2. a.balance = s.balance + Realized(s.book, r)
          BY <3>5
        <4>3. Realized(s.book, r) \in Int /\ s.balance \in Int /\ earned \in Int
              /\ Initial.amount \in Int
          BY <1>1, <2>1, RealizedType, ExecutionAssumption DEF Tracker, TypeOK, Money
        <4> QED BY <2>1, <4>1, <4>2, <4>3 DEF Follows
      <3>8. AgreesAt(a.book, id)'
        <4> HIDE DEF o
        <4>1. trades'[k].side = trades[k].side /\ trades'[k].name = trades[k].name
              /\ trades'[k].entry = trades[k].entry
          BY <1>1 DEF Kept
        <4>2. a.book = ApplyClose(s.book, r) /\ s.book \in Books
          BY <3>5 DEF Tracker
        <4>3. CASE f >= o.units
          <5>1. a.book = [s.book EXCEPT ![id] = None]
            BY <1>0, <1>1, <2>1, <3>4, <4>2, <4>3 DEF ApplyClose, o
          <5>2. a.book[id] = None
            BY <3>1, <4>2, <5>1 DEF Books
          <5>3. trades'[k].units = 0
            BY <1>2, <3>3, <4>3
          <5>4. OpenOf(id)' = {}
            <6>1. ASSUME NEW i \in OpenOf(id)' PROVE FALSE
              <7>1. i \in DOMAIN trades /\ trades'[i].units > 0 /\ trades'[i].name = id
                BY <6>1 DEF OpenOf, OpenOnes, IsOpen
              <7>2. i # k
                BY <5>3, <7>1
              <7>3. i \in OpenOf(id)
                BY <7>1, <7>2 DEF OpenOf, OpenOnes, IsOpen
              <7> QED BY <3>3, <7>2, <7>3
            <6> QED BY <6>1
          <5> QED BY <5>2, <5>4 DEF AgreesAt
        <4>4. CASE ~(f >= o.units)
          <5>1. a.book = [s.book EXCEPT ![id].units = @ - f]
            BY <1>0, <1>1, <2>1, <3>4, <4>2, <4>4 DEF ApplyClose, o
          <5>2. /\ a.book[id] = [o EXCEPT !.units = @ - f]
            BY <3>1, <4>2, <5>1 DEF Books, o
          <5>3. /\ o.units - f \in Nat /\ o.units - f > 0
            BY <1>2, <3>3, <4>4
          <5>4. /\ a.book[id] \in Open /\ a.book[id].units = o.units - f
                /\ a.book[id].side = o.side /\ a.book[id].entry = o.entry
            BY <3>3, <5>2, <5>3 DEF Open
          <5>5. OpenOf(id)' = {k}
            <6>1. k \in OpenOf(id)'
              BY <1>1, <2>1, <3>3, <4>1, <5>3 DEF OpenOf, OpenOnes, IsOpen
            <6>2. ASSUME NEW i \in OpenOf(id)', i # k PROVE FALSE
              <7>1. i \in OpenOf(id)
                BY <6>2 DEF OpenOf, OpenOnes, IsOpen
              <7> QED BY <3>3, <6>2, <7>1
            <6> QED BY <6>1, <6>2
          <5>6. a.book[id] # None
            BY <5>4, ExecutionAssumption
          <5> QED BY <3>3, <4>1, <5>4, <5>5, <5>6 DEF AgreesAt
        <4> QED BY <4>3, <4>4
      <3>9. ASSUME NEW n \in Name \ stray' PROVE AgreesAt(a.book, n)'
        <4>1. CASE n = id
          BY <3>8, <4>1
        <4>2. CASE n # id
          BY <1>4, <1>6, <2>1, <3>9, <4>2
        <4> QED BY <4>1, <4>2
      <3>10. Follows(a)'
        BY <3>7, <3>9 DEF Follows
      <3> QED BY <1>3, <3>10
    <2> QED BY <2>2, <2>3
  <1> QED BY <1>7, <1>8

\* The broker closes a trade on its own.
LEMMA StopFollows ==
  ASSUME TypeOK, StopOut, NEW s \in Tracker, Follows(s)
  PROVE  Follows(s)'
  <1>1. PICK k \in DOMAIN trades : /\ trades' = [trades EXCEPT ![k].units = 0]
                                   /\ stray' = stray \cup NamesOf({k})
    BY DEF StopOut
  <1>2. trades[k].name \in NamesOf({k}) /\ trades \in Seq(Trade)
    BY DEF NamesOf, TypeOK
  <1>3. ASSUME NEW n \in Name \ stray' PROVE AgreesAt(s.book, n)'
    <2>1. n # trades[k].name /\ AgreesAt(s.book, n)
      BY <1>1, <1>2 DEF Follows
    <2>2. /\ DOMAIN trades' = DOMAIN trades /\ trades'[k].name = trades[k].name
          /\ \A i \in DOMAIN trades : i # k => trades'[i] = trades[i]
      <3>1. trades[k] \in Trade
        BY <1>2
      <3>2. [trades[k] EXCEPT !.units = 0].name = trades[k].name
        BY <3>1 DEF Trade
      <3> QED BY <1>1, <1>2, <3>2
    <2>3. OpenOf(n)' = OpenOf(n) /\ \A i \in OpenOf(n) : trades'[i] = trades[i]
      BY <2>1, <2>2 DEF OpenOf, OpenOnes
    <2> QED BY <2>1, <2>3, AgreesFrame
  <1>4. stray' # {}
    BY <1>1, <1>2
  <1> QED BY <1>3, <1>4 DEF Follows

-----------------------------------------------------------------------------
\* Steps of the tracker and the broker.

LEMMA FollowsSame == \A s : UNCHANGED account => (Follows(s)' <=> Follows(s))
  BY DEF Follows, AgreesAt, OpenOf, OpenOnes, account

\* Steps that leave the responses, the tracker and the broker's account alone.
LEMMA FollowedFrame ==
  ASSUME Followed, UNCHANGED <<mode, reports, at, book, balance>>, UNCHANGED account,
         pc' # "failed" => pc # "failed"
  PROVE  Followed'
  <1> SUFFICES ASSUME mode = "live", pc' # "failed"
               PROVE  \E path, s : Leads(path)' /\ s = path[Len(reports')] /\ Follows(s)'
    BY DEF Followed
  <1>1. PICK path, s : Leads(path) /\ s = path[Len(reports)] /\ Follows(s)
    BY DEF Followed
  <1>2. Leads(path)'
    BY <1>1 DEF Leads
  <1>3. Follows(s)'
    BY <1>1, FollowsSame
  <1> QED BY <1>1, <1>2, <1>3

\* A step that adds a response which tells what became of the account.
LEMMA FollowedFurther ==
  ASSUME TypeOK, Turn, Followed, pc # "failed", UNCHANGED mode, NEW r \in Report,
         ValidRequest(r.event),
         reports' = Append(reports, r), UNCHANGED <<at, book, balance>>,
         \A s \in Tracker : mode = "live" /\ Follows(s) => Follows(After(s, r))'
  PROVE  Followed'
  <1> SUFFICES ASSUME mode = "live"
               PROVE  \E path, s : Leads(path)' /\ s = path[Len(reports')] /\ Follows(s)'
    BY DEF Followed
  <1>1. PICK path, s : Leads(path) /\ s = path[Len(reports)] /\ Follows(s)
    BY DEF Followed
  <1>2. s \in Tracker
    BY <1>1, LenReports DEF Leads
  <1>3. PICK p : Leads(p)' /\ p[Len(reports')] = After(s, r)
    BY <1>1, LeadsFurther
  <1>4. PICK e : e = After(s, r)
    OBVIOUS
  <1>5. Follows(After(s, r))'
    BY <1>1, <1>2
  <1>6. Follows(e)'
    BY <1>4, <1>5
  <1> QED BY <1>3, <1>4, <1>6

LEMMA FailureFollows ==
  ASSUME UNCHANGED account, NEW r, r.order = None, NEW s, Follows(s)
  PROVE  Follows(After(s, r))'
  <1>1. After(s, r) = s
    BY DEF After, IsFilled
  <1> QED BY <1>1, FollowsSame

\* What a request that was answered adds to the responses.
LEMMA Appended ==
  ASSUME TypeOK, NEW r \in Report, Answer(<<r>>) \/ \E t : Close(t, r)
  PROVE  /\ reports' = Append(reports, r) /\ UNCHANGED <<at, mode>>
         /\ UNCHANGED <<book, balance>>
  <1>1. reports \in Seq(Report)
    BY DEF TypeOK
  <1>2. reports \o <<r>> = Append(reports, r)
    BY <1>1
  <1> QED BY <1>2 DEF Answer, Close, tracker, bounds

LEMMA AnswerTurn ==
  ASSUME pc \in {"execute", "close"}, NEW rs, Answer(rs)
  PROVE  at' = at /\ pc' \in {"execute", "close", "answer"}
  BY DEF Answer

LEMMA CloseTurn ==
  ASSUME pc = "close", NEW t, NEW r, Close(t, r)
  PROVE  at' = at /\ pc' \in {"execute", "close", "answer"}
  <1>1. CASE targets = {t}
    BY <1>1, AnswerTurn DEF Close
  <1>2. CASE targets # {t}
    BY <1>2 DEF Close
  <1> QED BY <1>1, <1>2

LEMMA ExecuteTurn ==
  ASSUME IInv, Turn, Execute
  PROVE  Turn'
  <1>1. pc \in {"execute", "close"} /\ at' = at /\ pc' \in {"execute", "close", "answer"}
    <2>1. CASE Hold \/ Cancel \/ WithoutBroker \/ BrokerRaises \/ Simulate \/ PlaceOrder
      <3>1. pc = "execute" /\ \E rs : Answer(rs)
        BY <2>1 DEF Hold, Cancel, WithoutBroker, BrokerRaises, Simulate, PlaceOrder,
                    Executing, Fails
      <3> QED BY <3>1, AnswerTurn
    <2>2. CASE FindTargets
      <3>1. pc = "execute" /\ (Fails \/ (pc' = "close" /\ at' = at))
        BY <2>2 DEF FindTargets, Executing
      <3> QED BY <3>1, AnswerTurn DEF Fails
    <2>3. CASE CloseTarget
      <3>1. pc = "close" /\ \E t, r : Close(t, r)
        BY <2>3 DEF CloseTarget
      <3> QED BY <3>1, CloseTurn
    <2>4. CASE CloseRefused
      <3>1. pc = "close" /\ \E t, r : Close(t, r)
        BY <2>4 DEF CloseRefused
      <3> QED BY <3>1, CloseTurn
    <2> QED BY <2>1, <2>2, <2>3, <2>4 DEF Execute
  <1>2. at = 1 /\ TypeOK'
    BY <1>1, ExecuteStep DEF Turn, IInv
  <1>3. Len(reports') \in Nat
    BY <1>2 DEF TypeOK
  <1> QED BY <1>1, <1>2, <1>3 DEF Turn

LEMMA TurnStep == IInv /\ Turn /\ [Next]_vars => Turn'
  <1> SUFFICES ASSUME IInv, Turn, [Next]_vars PROVE Turn'
    OBVIOUS
  <1>1. /\ Len(reports) \in Nat /\ at \in 1..(Len(reports) + 1)
    BY LenReports DEF IInv, Turn
  <1>2. CASE UNCHANGED vars
    BY <1>2 DEF vars, Turn
  <1>3. CASE Emit \/ NewRun
    BY <1>3 DEF Emit, NewRun, Turn
  <1>4. CASE StopOut
    BY <1>4 DEF StopOut, Turn
  <1>5. CASE Publish
    <2>1. reports = <<>> => Len(reports) = 0
      OBVIOUS
    <2> QED BY <1>1, <1>5, <2>1 DEF Publish, Turn
  <1>6. CASE Account
    <2>1. /\ at' = at + 1 /\ at <= Len(reports) /\ reports' = reports
          /\ pc' \in {"account", "failed"}
      BY <1>6 DEF Account
    <2> QED BY <1>1, <2>1 DEF Turn
  <1>7. CASE Settle \/ Raise
    BY <1>1, <1>7 DEF Settle, Raise, Turn
  <1> QED BY <1>2, <1>3, <1>4, <1>5, <1>6, <1>7, ExecuteTurn DEF Next, Process

\* A tracker alone, when there are no responses.
LEMMA FollowedAlone ==
  ASSUME reports' = <<>>, at' = 1, NEW s \in Tracker,
         s = [book |-> book', balance |-> balance'], mode' = "live" => Follows(s)'
  PROVE  Followed'
  <1>1. PICK p : p = [j \in 0..0 |-> s]
    OBVIOUS
  <1>2. Len(reports') = 0
    OBVIOUS
  <1>3. p \in [0..Len(reports') -> Tracker] /\ p[0] = s
    BY <1>1, <1>2
  <1>4. Leads(p)'
    BY <1>2, <1>3 DEF Leads
  <1> QED BY <1>2, <1>3, <1>4 DEF Followed

\* With all responses accounted, it is the tracker that follows the broker.
LEMMA TrackerFollows ==
  ASSUME Turn, Followed, mode = "live", pc = "idle"
  PROVE  Follows([book |-> book, balance |-> balance])
  <1>1. PICK path, s : Leads(path) /\ s = path[Len(reports)] /\ Follows(s)
    BY DEF Followed
  <1>2. at = Len(reports) + 1 /\ at \in 1..(Len(reports) + 1) /\ at - 1 = Len(reports)
    BY DEF Turn
  <1>3. s = [book |-> book, balance |-> balance]
    BY <1>1, <1>2 DEF Leads
  <1> QED BY <1>1, <1>3

\* Between callbacks that says what the properties say.
LEMMA TrackerSays ==
  Follows([book |-> book, balance |-> balance])
    <=> /\ \A n \in Name \ stray : AgreesAt(book, n)
        /\ stray = {} => balance = Initial.amount + earned
  BY DEF Follows, AgreesAt

LEMMA EmitFollowed == ASSUME IInv, Turn, Followed, Emit PROVE Followed'
  <1>1. /\ pc = "idle" /\ reports' = <<>> /\ at' = 1 /\ UNCHANGED account
        /\ UNCHANGED <<mode, book, balance>> /\ book \in Books /\ balance \in Int
    BY DEF Emit, IInv, TypeOK, Books, account
  <1>2. mode = "live" => Follows([book |-> book, balance |-> balance])
    BY <1>1, TrackerFollows
  <1>3. PICK s : s = [book |-> book, balance |-> balance]
    OBVIOUS
  <1>4. s = [book |-> book', balance |-> balance'] /\ s \in Tracker
    BY <1>1, <1>3 DEF Tracker
  <1>5. mode' = "live" => Follows(s)'
    BY <1>1, <1>2, <1>3, FollowsSame
  <1> QED BY <1>1, <1>4, <1>5, FollowedAlone

\* A new runner knows no trades, and the names of those open are stray.
LEMMA NewRunFollowed == ASSUME IInv, NewRun PROVE Followed'
  <1>1. /\ reports' = <<>> /\ at' = 1 /\ book' = NoTrades /\ balance' = Initial.amount
        /\ earned' = 0 /\ stray' = NamesOf(OpenOnes) /\ trades' = trades
    BY DEF NewRun
  <1>2. book' \in Books /\ balance' \in Int /\ \A n \in Name : book'[n] = None
    BY <1>1, ExecutionAssumption DEF NoTrades, Books, Money
  <1>3. PICK s : s = [book |-> book', balance |-> balance']
    OBVIOUS
  <1>4. s \in Tracker /\ s.book = book' /\ s.balance = balance'
    BY <1>2, <1>3 DEF Tracker
  <1>5. ASSUME NEW n \in Name \ stray' PROVE AgreesAt(s.book, n)'
    <2>1. OpenOf(n)' = {}
      BY <1>1 DEF OpenOf, OpenOnes, NamesOf
    <2>2. s.book[n] = None
      BY <1>2, <1>4
    <2> QED BY <2>1, <2>2 DEF AgreesAt
  <1>6. s.balance = Initial.amount + earned'
    BY <1>1, <1>2, <1>4
  <1>7. Follows(s)'
    BY <1>5, <1>6 DEF Follows
  <1> QED BY <1>1, <1>3, <1>4, <1>7, FollowedAlone

LEMMA AccountFollowed == ASSUME IInv, Turn, Followed, Account PROVE Followed'
  <1> SUFFICES ASSUME mode = "live", pc' # "failed"
               PROVE  \E path, s : Leads(path)' /\ s = path[Len(reports')] /\ Follows(s)'
    BY DEF Followed, Account, bounds
  <1>1. pc = "account" /\ pc' = "account" /\ UNCHANGED account
    BY DEF Account
  <1>2. PICK path, s : Leads(path) /\ s = path[Len(reports)] /\ Follows(s)
    BY <1>1 DEF Followed, Account, bounds
  <1>3. Leads(path)' /\ reports' = reports
    BY <1>1, <1>2, LeadsOn
  <1>4. Follows(s)'
    BY <1>1, <1>2, FollowsSame
  <1> QED BY <1>2, <1>3, <1>4

LEMMA StopOutFollowed == ASSUME IInv, Followed, StopOut PROVE Followed'
  <1> SUFFICES ASSUME mode = "live", pc # "failed"
               PROVE  \E path, s : Leads(path)' /\ s = path[Len(reports')] /\ Follows(s)'
    BY DEF Followed, StopOut, bounds
  <1>1. UNCHANGED <<reports, at, book, balance>>
    BY DEF StopOut, tracker
  <1>2. PICK path, s : Leads(path) /\ s = path[Len(reports)] /\ Follows(s)
    BY DEF Followed
  <1>3. Leads(path)'
    BY <1>1, <1>2 DEF Leads
  <1>4. s \in Tracker
    BY <1>2, LenReports DEF Leads, IInv
  <1>5. Follows(s)'
    BY <1>2, <1>4, StopFollows DEF IInv
  <1> QED BY <1>1, <1>2, <1>3, <1>5

\* A request that fails, with the account as it was.
LEMMA FailsFollowed ==
  ASSUME IInv, Turn, Followed, pc \in {"execute", "close"}, RequiresBroker(Now),
         UNCHANGED account, Fails \/ \E t : Close(t, Failure(next, Now))
  PROVE  Followed'
  <1>1. /\ TypeOK /\ Place /\ next \in Nat /\ Now \in Request /\ ValidRequest(Now)
    BY RequestNow DEF IInv, Busy
  <1>2. PICK r : r = Failure(next, Now)
    OBVIOUS
  <1>3. r \in Report /\ r.order = None /\ r.event = Now
    BY <1>1, <1>2, ResponseType DEF Failure
  <1>4. /\ reports' = Append(reports, r) /\ UNCHANGED <<at, mode>>
        /\ UNCHANGED <<book, balance>>
    BY <1>1, <1>2, <1>3, Appended DEF Fails
  <1>5. \A s \in Tracker : mode = "live" /\ Follows(s) => Follows(After(s, r))'
    BY <1>3, FailureFollows
  <1> QED BY <1>1, <1>3, <1>4, <1>5, FollowedFurther

LEMMA PlaceOrderFollowed == ASSUME IInv, Turn, Followed, PlaceOrder PROVE Followed'
  <1>1. /\ pc = "execute" /\ Now.action = "open_trade" /\ TypeOK /\ Place
    BY DEF PlaceOrder, Executing, IInv
  <1>2. next \in Nat /\ Now \in Request /\ ValidRequest(Now)
    BY <1>1, RequestNow DEF Busy
  <1>3. Now.units \in Nat /\ Now.side \in TradeSide /\ Now.instrument \in Instrument
    BY <1>1, <1>2 DEF ValidRequest, Request
  <1> DEFINE Order1(f, amount, says) ==
        [OpenOrder(Now) EXCEPT !.filled = f,
           !.status = IF f = Now.units THEN "filled" ELSE "cancelled",
           !.average = IF says /\ f > 0 THEN Price(Now.instrument, amount) ELSE None]
  <1>4. PICK f \in 0..Now.units, amount \in Market, says \in BOOLEAN :
          \/ Answer(<<Response(next, Now, Order1(f, amount, says))>>) /\ Placed(f, amount, says)
          \/ f > 0 /\ Fails /\ Placed(f, amount, FALSE)
    BY DEF PlaceOrder
  <1>5. /\ Order1(f, amount, says) \in Order /\ Order1(f, amount, says).filled = f
        /\ says /\ f > 0 => FillPrice(Order1(f, amount, says)) = Price(Now.instrument, amount)
    <2>1. Price(Now.instrument, amount) \in Money
      BY <1>3, ModelsAssumption, ExecutionAssumption DEF Price, Money
    <2>2. OpenOrder(Now) \in Order
      BY <1>2, <1>3, OrderTypes
    <2> DEFINE average == IF says /\ f > 0 THEN Price(Now.instrument, amount) ELSE None
               status == IF f = Now.units THEN "filled" ELSE "cancelled"
    <2>3. /\ average \in Money \cup {None} /\ status \in OrderStatus /\ f \in Nat
          /\ says /\ f > 0 => average = Price(Now.instrument, amount) /\ average # None
      BY <1>3, <2>1, NoneAssumption DEF OrderStatus
    <2> HIDE DEF average, status
    <2>4. Order1(f, amount, says) = [OpenOrder(Now) EXCEPT !.filled = f, !.status = status,
                                       !.average = average]
      BY DEF average, status
    <2>5. Order1(f, amount, says) \in Order /\ Order1(f, amount, says).filled = f
          /\ Order1(f, amount, says).average = average
      BY <2>2, <2>3, <2>4 DEF Order
    <2> QED BY <2>3, <2>5 DEF FillPrice
  <1> HIDE DEF Order1
  <1>6. CASE /\ Answer(<<Response(next, Now, Order1(f, amount, says))>>)
             /\ Placed(f, amount, says)
    <2>1. PICK r : r = Response(next, Now, Order1(f, amount, says))
      OBVIOUS
    <2>2. r \in Report /\ r.event = Now /\ r.order = Order1(f, amount, says) /\ r.order # None
      BY <1>2, <1>5, <2>1, ResponseType, NoneAssumption
    <2>3. PlacedAs(f, amount, says, r)
      BY <1>3, <1>5, <2>2 DEF PlacedAs, IsFilled
    <2>4. /\ reports' = Append(reports, r) /\ UNCHANGED <<at, mode>>
          /\ UNCHANGED <<book, balance>>
      BY <1>1, <1>6, <2>1, <2>2, Appended
    <2>5. \A s \in Tracker : mode = "live" /\ Follows(s) => Follows(After(s, r))'
      BY <1>1, <1>6, <2>2, <2>3, PlacedFollows
    <2> QED BY <1>1, <1>2, <2>2, <2>4, <2>5, FollowedFurther
  <1>7. CASE f > 0 /\ Fails /\ Placed(f, amount, FALSE)
    <2>1. PICK r : r = Failure(next, Now)
      OBVIOUS
    <2>2. r \in Report /\ r.event = Now /\ r.order = None
      BY <1>2, <2>1, ResponseType DEF Failure
    <2>3. PlacedAs(f, amount, FALSE, r)
      BY <2>2 DEF PlacedAs, IsFilled
    <2>4. /\ reports' = Append(reports, r) /\ UNCHANGED <<at, mode>>
          /\ UNCHANGED <<book, balance>>
      BY <1>1, <1>7, <2>1, <2>2, Appended DEF Fails
    <2>5. \A s \in Tracker : mode = "live" /\ Follows(s) => Follows(After(s, r))'
      BY <1>1, <1>7, <2>2, <2>3, PlacedFollows
    <2> QED BY <1>1, <1>2, <2>2, <2>4, <2>5, FollowedFurther
  <1> QED BY <1>4, <1>6, <1>7

LEMMA CloseTargetFollowed == ASSUME IInv, Turn, Followed, CloseTarget PROVE Followed'
  <1>1. TypeOK /\ Place /\ pc = "close"
    BY DEF IInv, CloseTarget
  <1>2. Now \in Request /\ ValidRequest(Now)
    BY <1>1, RequestNow DEF Busy
  <1>3. PICK t \in targets : \E k \in TakenFrom(t), f \in 1..Now.units, r \in Report,
                             amount \in Market :
           /\ Responds(r) /\ Close(t, r) /\ Kept
           /\ DOMAIN trades' = DOMAIN trades
           /\ f <= trades[k].units /\ Taken(k, f, amount)
           /\ trades'[k].units = trades[k].units - f
           /\ \A i \in DOMAIN trades : i # k => trades'[i] = trades[i]
           /\ Usable(t, k, f, amount, r) \/ Useless(k, r)
    BY CloseTargetDoes
  <1>4. PICK k \in TakenFrom(t), f \in 1..Now.units, r \in Report, amount \in Market :
           /\ Responds(r) /\ Close(t, r) /\ Kept
           /\ DOMAIN trades' = DOMAIN trades
           /\ f <= trades[k].units /\ Taken(k, f, amount)
           /\ trades'[k].units = trades[k].units - f
           /\ \A i \in DOMAIN trades : i # k => trades'[i] = trades[i]
           /\ Usable(t, k, f, amount, r) \/ Useless(k, r)
    BY <1>3
  <1>5. /\ reports' = Append(reports, r) /\ UNCHANGED <<at, mode>>
        /\ UNCHANGED <<book, balance>>
    BY <1>1, <1>4, Appended
  <1>6. ASSUME NEW s \in Tracker, Follows(s) PROVE Follows(After(s, r))'
    BY <1>1, <1>4, <1>6, TakenFollows
  <1>7. ValidRequest(r.event)
    BY <1>2, <1>4 DEF Responds
  <1> QED BY <1>1, <1>4, <1>5, <1>6, <1>7, FollowedFurther

LEMMA ExecuteFollowed == ASSUME IInv, Turn, Followed, Execute PROVE Followed'
  <1>1. CASE Hold
    <2>1. reports \o <<>> = reports
      BY DEF IInv, TypeOK
    <2>2. /\ UNCHANGED <<mode, reports, at, book, balance>> /\ UNCHANGED account
          /\ pc = "execute"
      BY <1>1, <2>1 DEF Hold, Executing, Answer, tracker, bounds
    <2> QED BY <2>2, FollowedFrame
  <1>2. CASE Cancel \/ BrokerRaises \/ WithoutBroker
    <2>1. /\ pc = "execute" /\ RequiresBroker(Now) /\ Fails /\ UNCHANGED account
      BY <1>2 DEF Cancel, WithoutBroker, BrokerRaises, Executing, RequiresBroker
    <2> QED BY <2>1, FailsFollowed
  <1>3. CASE Simulate
    <2>1. mode' = "dry"
      BY <1>3 DEF Simulate, Answer, bounds
    <2> QED BY <2>1 DEF Followed
  <1>4. CASE FindTargets
    <2>1. /\ pc = "execute" /\ RequiresBroker(Now) /\ UNCHANGED account
      BY <1>4 DEF FindTargets, Executing, RequiresBroker
    <2>2. Fails \/ UNCHANGED <<mode, reports, at, book, balance>>
      BY <1>4 DEF FindTargets, tracker, bounds
    <2> QED BY <2>1, <2>2, FailsFollowed, FollowedFrame
  <1>5. CASE CloseRefused
    <2>1. /\ pc = "close" /\ UNCHANGED account
          /\ \E t : Close(t, Failure(next, Now))
      BY <1>5 DEF CloseRefused
    <2>2. RequiresBroker(Now)
      BY <2>1 DEF IInv, Place, RequiresBroker
    <2> QED BY <2>1, <2>2, FailsFollowed
  <1> QED BY <1>1, <1>2, <1>3, <1>4, <1>5, PlaceOrderFollowed, CloseTargetFollowed
      DEF Execute

LEMMA FollowStep == IInv /\ FollowInv /\ [Next]_vars => FollowInv'
  <1> SUFFICES ASSUME IInv, Turn, Followed, [Next]_vars PROVE Followed'
    BY TurnStep DEF FollowInv
  <1>1. CASE UNCHANGED vars
    BY <1>1, FollowedFrame DEF vars, account
  <1>2. CASE Publish \/ Settle \/ Raise
    <2>1. /\ UNCHANGED <<mode, reports, at, book, balance>> /\ UNCHANGED account
          /\ pc # "failed"
      BY <1>2 DEF Publish, Settle, Raise, tracker, bounds
    <2> QED BY <2>1, FollowedFrame
  <1> QED BY <1>1, <1>2, EmitFollowed, ExecuteFollowed, AccountFollowed, StopOutFollowed,
             NewRunFollowed DEF Next, Process

LEMMA InitFollow == Init => FollowInv
  <1> SUFFICES ASSUME Init PROVE FollowInv
    OBVIOUS
  <1>1. Turn
    BY DEF Init, Turn
  <1>2. book \in Books /\ balance \in Int /\ \A n \in Name : book[n] = None
    BY ExecutionAssumption DEF Init, NoTrades, Books, Money
  <1>3. Follows([book |-> book, balance |-> balance])
    <2>1. OpenOnes = {}
      BY DEF Init, OpenOnes
    <2>2. \A n \in Name : AgreesAt(book, n)
      BY <1>2, <2>1 DEF AgreesAt, OpenOf
    <2>3. balance = Initial.amount + earned
      BY <1>2 DEF Init
    <2> QED BY <2>2, <2>3, TrackerSays
  <1>4. PICK s : s = [book |-> book, balance |-> balance]
    OBVIOUS
  <1>5. PICK p : p = [j \in 0..0 |-> s]
    OBVIOUS
  <1>6. /\ Len(reports) = 0 /\ at = 1 /\ s \in Tracker
    BY <1>2, <1>4 DEF Init, Tracker
  <1>7. Leads(p) /\ p[Len(reports)] = s
    BY <1>4, <1>5, <1>6 DEF Leads
  <1> QED BY <1>1, <1>3, <1>4, <1>7 DEF FollowInv, Followed

\* Once the responses that are there are accounted, the tracker follows the
\* broker: what is still to account is as good as accounted.
THEOREM FollowInvariance == Spec => []FollowInv
  <1>1. Init => FollowInv BY InitFollow
  <1>2. IInv /\ FollowInv /\ [Next]_vars => FollowInv' BY FollowStep
  <1> QED BY <1>1, <1>2, Invariance, PTL DEF Spec

\* Between callbacks the tracker's open trades are the broker's, but for names
\* whose trades changed without a usable answer.
THEOREM BookFollowsBrokerHolds == Spec => []BookFollowsBroker
  <1>1. FollowInv => BookFollowsBroker
    <2>1. FollowInv /\ mode = "live" /\ pc = "idle" => \A n \in Name \ stray : AgreesAt(book, n)
      BY TrackerFollows, TrackerSays DEF FollowInv
    <2> QED BY <2>1 DEF BookFollowsBroker, AgreesAt, OpenOf
  <1> QED BY <1>1, FollowInvariance, PTL

\* Without such a name the balance is what the broker earned in the run.
THEOREM BalanceFollowsBrokerHolds == Spec => []BalanceFollowsBroker
  <1>1. FollowInv => BalanceFollowsBroker
    BY TrackerFollows, TrackerSays DEF FollowInv, BalanceFollowsBroker
  <1> QED BY <1>1, FollowInvariance, PTL
=============================================================================
