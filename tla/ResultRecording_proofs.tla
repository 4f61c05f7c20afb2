------------------------ MODULE ResultRecording_proofs ------------------------
(* The invariant of ResultRecording is inductive, for any tasks, trades,      *)
(* events and stores, and implies the safety properties of the recorder.      *)
EXTENDS ResultRecordingInvariant, WellFoundedInduction, NaturalsInduction, TLAPS

-----------------------------------------------------------------------------
\* Lemmas about data.

\* A non-empty set of positions has a last one.
LEMMA LastPosition ==
  ASSUME NEW n \in Nat, NEW I \in SUBSET (1..n), I # {}
  PROVE  \E i \in I : \A j \in I : j <= i
<1> DEFINE T == {n - i : i \in I}
<1>1. T \subseteq Nat /\ T # {}
  <2>1. \A i \in I : n - i \in Nat BY SMT
  <2> QED BY <2>1, Zenon
<1> HIDE DEF T
<1>2. PICK m \in T : \A y \in T : ~(<<y, m>> \in OpToRel(<, Nat))
  BY <1>1, NatLessThanWellFounded, WFMin, Zenon
<1>3. \A y \in T : m <= y
  <2>1. \A y \in T : ~(y < m) BY <1>1, <1>2, Zenon DEF OpToRel
  <2> QED BY <1>1, <2>1, SMT
<1>4. PICK i \in I : m = n - i BY Zenon DEF T
<1>5. \A j \in I : n - i <= n - j BY <1>3, <1>4, Zenon DEF T
<1> QED BY <1>5, SMT

\* The stores of a flush start with the first.
LEMMA Stores1 == Len(Stores) \in Nat /\ 1 \in Store
BY ConstantsAssumption DEF Store

\* A free lock, and a call that goes on, are well typed.
LEMMA FreeType == Free \in Call
BY Stores1, SMT DEF Free, Call

LEMMA ContinueType ==
  ASSUME NEW c \in Call
  PROVE  Continue(c) \in Call
<1>1. CASE c.todo # {} BY <1>1, SMT DEF Continue, Call
<1>2. CASE c.todo = {} /\ c.then = "free"
  BY <1>2, FreeType, SMT DEF Continue
<1>3. CASE c.todo = {} /\ c.then # "free" BY <1>3, SMT DEF Continue, Call
<1> QED BY <1>1, <1>2, <1>3

\* What a batch leaves in a store is well typed.
LEMMA WrittenType ==
  ASSUME NEW q \in Seq(Rec), NEW I \in SUBSET (1..Len(q)), NEW v \in Shown
  PROVE  Written(q, I, v) \in Shown
<1> SUFFICES ASSUME NEW k \in Key
             PROVE  /\ Written(q, I, v)[k] \in Value \cup {None}
                    /\ Written(q, I, v)[k] = None \/ Says(k, Written(q, I, v)[k])
  BY Zenon DEF Shown, Written
<1>1. CASE \E i \in I : q[i].key = k
  <2> DEFINE J == {i \in I : q[i].key = k}
             P(i) == q[i].key = k /\ \A j \in I : q[j].key = k => j <= i
  <2>1. \E i \in J : \A j \in J : j <= i
    <3>1. Len(q) \in Nat BY SMT
    <3>2. J \in SUBSET (1..Len(q)) /\ J # {} BY <1>1, Zenon
    <3> QED BY <3>1, <3>2, LastPosition, Zenon
  <2>2. \E i \in I : P(i) BY <2>1
  <2>3. PICK i \in I : i = CHOOSE j \in I : P(j) BY <2>2, Zenon
  <2>4. P(i) BY <2>2, <2>3, Zenon
  <2>5. Written(q, I, v)[k] = q[i].val BY <1>1, <2>3, Zenon DEF Written
  <2>6. q[i] \in Rec OBVIOUS
  <2> QED BY <2>4, <2>5, <2>6 DEF Rec
<1>2. CASE ~ \E i \in I : q[i].key = k
  BY <1>2, SMT DEF Written, Shown
<1> QED BY <1>1, <1>2

\* Where a refused batch stops is at positions of it.
LEMMA LandedType ==
  ASSUME NEW s \in Store, NEW I \in Landed(s)
  PROVE  I \in SUBSET (1..Len(buffer[s]))
<1>1. CASE Stores[s] = "sql"
  <2>1. Landed(s) = {{}} BY <1>1 DEF Landed
  <2> QED BY <2>1, Zenon
<1>2. CASE Stores[s] # "sql"
  <2>1. Landed(s) = {Appended(buffer[s], kind, row) :
                       kind \in 1..5, row \in 0..Len(buffer[s])}
    BY <1>2, SMT DEF Landed
  <2>2. PICK kind \in 1..5, row \in 0..Len(buffer[s]) :
          I = Appended(buffer[s], kind, row)
    BY <2>1, SMT
  <2> QED BY <2>2, Zenon DEF Appended
<1> QED BY <1>1, <1>2

\* A summary and the totals of trades that have one are well typed.
LEMMA SummaryType ==
  ASSUME TypeOK, NEW tr \in Trade, Summary(tr) # None
  PROVE  Summary(tr) \in TradeSummary
<1> DEFINE k == <<"trade", tr>>
<1>1. k \in Key /\ k[1] = "trade" BY SMT DEF Key
<1>2. memory[k] # None => memory[k] \in TradeSummary
  <2>1. memory[k] # None => Says(k, memory[k])
    BY <1>1, Zenon DEF TypeOK, Shown
  <2> HIDE DEF k
  <2> QED BY <1>1, <2>1, SMT DEF Says
<1>3. CASE ledger[tr] # None BY <1>3, SMT DEF Summary, TypeOK
<1>4. CASE ledger[tr] = None BY <1>2, <1>4, Zenon DEF Summary
<1> QED BY <1>3, <1>4

LEMMA TotalType ==
  ASSUME TypeOK, NEW S \in SUBSET Trade, \A tr \in S : Summary(tr) # None
  PROVE  Total(S) \in Totals
<1>1. \A tr \in S : Summary(tr).closed \in Event \cup {None}
  BY SummaryType, SMT DEF TradeSummary
<1>2. {Summary(tr).closed : tr \in S} \ {None} \in SUBSET Event
  BY <1>1, Zenon
<1>3. {tr \in S : Summary(tr).closed = None} \in SUBSET Trade BY Zenon
<1> QED BY <1>2, <1>3, SMT DEF Total, Totals
-----------------------------------------------------------------------------
\* Type correctness.

\* A call that proceeds, and one that raises, leave well-typed state.
LEMMA ProceedType ==
  ASSUME TypeOK, NEW c \in Call, Proceed(c)
  PROVE  call' \in Call /\ kept' \subseteq Event
<1>1. call' \in Call BY ContinueType, Zenon DEF Proceed
<1>2. c.event \in Event \cup {None} BY SMT DEF Call
<1>3. kept \subseteq Event BY Zenon DEF TypeOK
<1>4. CASE c.event # None BY <1>1, <1>2, <1>3, <1>4, Zenon DEF Proceed
<1>5. CASE c.event = None BY <1>1, <1>3, <1>5, Zenon DEF Proceed
<1> QED BY <1>1, <1>4, <1>5, Zenon

LEMMA RaiseType ==
  ASSUME TypeOK, Raise
  PROVE  call' \in Call /\ run' \in [Task -> Phase]
<1>1. call' \in Call BY FreeType, Zenon DEF Raise
<1>2. run \in [Task -> Phase] BY Zenon DEF TypeOK
<1>3. CASE call.by = None BY <1>1, <1>2, <1>3, Zenon DEF Raise
<1>4. CASE call.by # None
  <2>1. run' = [run EXCEPT ![call.by] =
                  IF @ = "running" THEN "failing" ELSE "dead"]
    BY <1>4, Zenon DEF Raise
  <2>2. (IF run[call.by] = "running" THEN "failing" ELSE "dead") \in Phase
    BY Zenon DEF Phase
  <2>3. run' \in [Task -> Phase] BY <1>2, <2>1, <2>2, Zenon
  <2> QED BY <1>1, <2>3
<1> QED BY <1>1, <1>3, <1>4

LEMMA CallTyped == TypeOK => call \in Call
BY Zenon DEF TypeOK

LEMMA FlushingType ==
  ASSUME NEW c \in Call
  PROVE  [c EXCEPT !.pc = "flush", !.at = 1] \in Call
<1>1. [c EXCEPT !.pc = "flush"] \in Call BY SMT DEF Call
<1>2. \A d \in Call : [d EXCEPT !.at = 1] \in Call BY Stores1, SMT DEF Call
<1>3. [c EXCEPT !.pc = "flush", !.at = 1] =
        [[c EXCEPT !.pc = "flush"] EXCEPT !.at = 1]
  BY Zenon
<1> QED BY <1>1, <1>2, <1>3

LEMMA SaveType == TypeOK /\ Save => TypeOK'
<1> SUFFICES ASSUME TypeOK, Save PROVE TypeOK' OBVIOUS
<1>1. PICK r \in call.todo :
        /\ memory' = [memory EXCEPT ![r.key] = r.val]
        /\ buffer' = [s \in Store |-> Append(buffer[s], r)]
        /\ count' = count + 1
        /\ LET c == [call EXCEPT !.todo = @ \ {r}]
           IN IF count + 1 >= FlushEvery
              THEN /\ call' = [c EXCEPT !.pc = "flush", !.at = 1]
                   /\ UNCHANGED kept
              ELSE Proceed(c)
  BY Zenon DEF Save
<1>2. call \in Call BY CallTyped
<1>3. r \in Rec BY <1>2, SMT DEF Call
<1>4. r.key \in Key /\ r.val \in Value /\ Says(r.key, r.val)
  BY <1>3, Zenon DEF Rec
<1>5. memory' \in Shown
  <2>1. /\ memory \in [Key -> Value \cup {None}]
        /\ \A k \in Key : memory[k] = None \/ Says(k, memory[k])
    BY Zenon DEF TypeOK, Shown
  <2>2. memory' \in [Key -> Value \cup {None}]
    BY <1>1, <1>4, <2>1, SMT
  <2>3. \A k \in Key : memory'[k] = IF k = r.key THEN r.val ELSE memory[k]
    BY <1>1, <1>4, <2>1, SMT
  <2>4. \A k \in Key : memory'[k] = None \/ Says(k, memory'[k])
    BY <1>4, <2>1, <2>3, Zenon
  <2> QED BY <2>2, <2>4, Zenon DEF Shown
<1>6. buffer' \in [Store -> Seq(Rec)] /\ count' \in Nat
  BY <1>1, <1>3, SMT DEF TypeOK
<1>7. call' \in Call /\ kept' \subseteq Event
  <2> DEFINE c == [call EXCEPT !.todo = @ \ {r}]
  <2>1. c \in Call BY <1>2, SMT DEF Call
  <2>2. CASE count + 1 >= FlushEvery
    <3>1. [c EXCEPT !.pc = "flush", !.at = 1] \in Call
      <4> HIDE DEF c
      <4> QED BY <2>1, FlushingType, Zenon
    <3> QED BY <1>1, <2>2, <3>1, Zenon DEF TypeOK
  <2>3. CASE ~(count + 1 >= FlushEvery)
    <3>1. Proceed(c) BY <1>1, <2>3, Zenon
    <3> HIDE DEF c
    <3> QED BY <2>1, <3>1, ProceedType, Zenon
  <2> QED BY <2>2, <2>3
<1> QED BY <1>5, <1>6, <1>7, SMT DEF Save, TypeOK, disk, task

LEMMA FlushStoreType == TypeOK /\ FlushStore => TypeOK'
<1> SUFFICES ASSUME TypeOK, FlushStore PROVE TypeOK' OBVIOUS
<1>1. call \in Call BY CallTyped
<1>2. call.at \in Store /\ call.at \in Nat BY <1>1, SMT DEF Call, Store
<1>3. /\ view' \in [Store -> Shown] /\ buffer' \in [Store -> Seq(Rec)]
      /\ failed' \subseteq Store
  <2>1. CASE buffer[call.at] = <<>>
    BY <2>1, Zenon DEF FlushStore, TypeOK, disk
  <2>2. CASE buffer[call.at] # <<>>
    <3> DEFINE q == buffer[call.at]
               w == Written(q, 1..Len(q), view[call.at])
    <3>1. w \in Shown
      <4>1. q \in Seq(Rec) /\ view[call.at] \in Shown
        BY <1>2, Zenon DEF TypeOK
      <4> HIDE DEF q
      <4> QED BY <4>1, WrittenType, Zenon
    <3>2. view' = [view EXCEPT ![call.at] = w]
      BY <2>2, Zenon DEF FlushStore
    <3>3. view' \in [Store -> Shown]
      <4> HIDE DEF w
      <4> QED BY <3>1, <3>2, Zenon DEF TypeOK
    <3>4. buffer' \in [Store -> Seq(Rec)]
      <4>1. <<>> \in Seq(Rec) BY SMT
      <4> QED BY <2>2, <4>1, Zenon DEF FlushStore, TypeOK
    <3>5. failed' \subseteq Store BY <2>2, Zenon DEF FlushStore, TypeOK
    <3> QED BY <3>3, <3>4, <3>5
  <2> QED BY <2>1, <2>2
<1>4. count' \in Nat /\ call' \in Call /\ kept' \subseteq Event
  <2>1. CASE call.at < Len(Stores)
    <3>1. [call EXCEPT !.at = @ + 1] \in Call
      BY <1>1, <1>2, <2>1, Stores1, SMT DEF Call, Store
    <3> QED BY <2>1, <3>1, Zenon DEF FlushStore, Flushed, TypeOK
  <2>2. CASE ~(call.at < Len(Stores))
    <3>1. Proceed(call) BY <2>2, Zenon DEF FlushStore, Flushed
    <3>2. count' \in Nat BY <2>2, SMT DEF FlushStore, Flushed, TypeOK
    <3> QED BY <1>1, <3>1, <3>2, ProceedType
  <2> QED BY <2>1, <2>2
<1> QED BY <1>3, <1>4, SMT DEF FlushStore, TypeOK, task

LEMMA RefuseBatchType == TypeOK /\ RefuseBatch => TypeOK'
<1> SUFFICES ASSUME TypeOK, RefuseBatch PROVE TypeOK' OBVIOUS
<1>1. call.at \in Store BY CallTyped, SMT DEF Call
<1>2. PICK I \in Landed(call.at) :
        view' = [view EXCEPT ![call.at] = Written(buffer[call.at], I, @)]
  BY Zenon DEF RefuseBatch
<1> DEFINE w == Written(buffer[call.at], I, view[call.at])
<1>3. w \in Shown
  <2>1. buffer[call.at] \in Seq(Rec) /\ view[call.at] \in Shown
    BY <1>1, Zenon DEF TypeOK
  <2>2. I \in SUBSET (1..Len(buffer[call.at])) BY <1>1, LandedType
  <2> QED BY <2>1, <2>2, WrittenType, Zenon
<1>4. view' \in [Store -> Shown]
  <2>1. view' = [view EXCEPT ![call.at] = w] BY <1>2, Zenon
  <2> HIDE DEF w
  <2> QED BY <1>3, <2>1, Zenon DEF TypeOK
<1>5. failed' \subseteq Store BY <1>1, Zenon DEF RefuseBatch, TypeOK
<1>6. call' \in Call /\ run' \in [Task -> Phase]
  BY RaiseType, Zenon DEF RefuseBatch
<1> QED BY <1>4, <1>5, <1>6, SMT DEF RefuseBatch, TypeOK, book

\* A call that starts or goes on to save is well typed.
LEMMA SavingType ==
  ASSUME NEW by \in Task \cup {None}, NEW todo \in SUBSET Rec,
         NEW then \in {"free", "ledger", "report", "mark", "final", "cleanup"},
         NEW event \in Event \cup {None}
  PROVE  Saving(by, todo, then, event) \in Call
BY Stores1, SMT DEF Call, Saving

LEMMA SavingIs ==
  \A by, todo, then, event :
    /\ Saving(by, todo, then, event).pc = "save"
    /\ Saving(by, todo, then, event).by = by
    /\ Saving(by, todo, then, event).then = then
BY Zenon DEF Saving

\* The records the recorder makes.
LEMMA EventRecType ==
  ASSUME NEW e \in Event
  PROVE  [key |-> <<"event", e>>, val |-> Seen] \in Rec
<1>1. <<"event", e>> \in Key /\ <<"event", e>>[1] = "event" BY SMT DEF Key
<1>2. Seen \in Value BY Zenon DEF Value
<1>3. Says(<<"event", e>>, Seen) BY <1>1, Zenon DEF Says
<1> QED BY <1>1, <1>2, <1>3, SMT DEF Rec

LEMMA TradeRecType ==
  ASSUME TypeOK, NEW tr \in Trade, Summary(tr) # None
  PROVE  TradeRec(tr) \in Rec
<1>1. <<"trade", tr>> \in Key /\ <<"trade", tr>>[1] = "trade" BY SMT DEF Key
<1>2. Summary(tr) \in TradeSummary BY SummaryType
<1>3. Summary(tr) \in Value BY <1>2, Zenon DEF Value
<1>4. Says(<<"trade", tr>>, Summary(tr)) BY <1>1, <1>2, Zenon DEF Says
<1> QED BY <1>1, <1>3, <1>4, SMT DEF Rec, TradeRec

LEMMA TotalRecType ==
  ASSUME NEW k \in Key, k[1] \in {"cycle", "task", "metric"}, NEW v \in Totals
  PROVE  [key |-> k, val |-> v] \in Rec
<1>1. v \in Value /\ Says(k, v) BY Zenon DEF Value, Says
<1> QED BY <1>1, SMT DEF Rec

LEMMA InLedgerKnown ==
  \A t : \A tr \in InLedger(t) : tr \in Trade /\ Summary(tr) # None
BY Zenon DEF InLedger, Summary

LEMMA CycleRecType ==
  ASSUME TypeOK, NEW c \in Cycle, NEW t \in Task
  PROVE  CycleRec(c, t) \in Rec
<1> DEFINE S == {tr \in InLedger(t) : CycleOf[tr] = c}
<1>1. Total(S) \in Totals
  <2>1. S \in SUBSET Trade /\ \A tr \in S : Summary(tr) # None
    BY InLedgerKnown, Zenon
  <2> QED BY <2>1, TotalType
<1>2. <<"cycle", c>> \in Key
      /\ <<"cycle", c>>[1] \in {"cycle", "task", "metric"}
  BY SMT DEF Key
<1> QED BY <1>1, <1>2, TotalRecType, Zenon DEF CycleRec

LEMMA FinalRecsType ==
  ASSUME TypeOK, NEW t \in Task
  PROVE  FinalRecs(t) \subseteq Rec
<1> SUFFICES ASSUME NEW r \in FinalRecs(t) PROVE r \in Rec OBVIOUS
<1>1. CASE \E tr \in Known(t) : r = TradeRec(tr)
  BY <1>1, TradeRecType, Zenon DEF Known
<1>2. CASE \E c \in LedgerCycles(t) : r = CycleRec(c, t)
  <2>1. LedgerCycles(t) \subseteq Cycle
    BY InLedgerKnown, ConstantsAssumption, SMT DEF LedgerCycles
  <2> QED BY <1>2, <2>1, CycleRecType, Zenon
<1>3. CASE \E c \in MemoryCycles(t) :
             r = [key |-> <<"cycle", c>>, val |-> memory[<<"cycle", c>>]]
  <2>1. PICK c \in MemoryCycles(t) :
          r = [key |-> <<"cycle", c>>, val |-> memory[<<"cycle", c>>]]
    BY <1>3
  <2>2. c \in Cycle /\ memory[<<"cycle", c>>] # None
    BY Zenon DEF MemoryCycles
  <2> DEFINE k == <<"cycle", c>>
  <2>3. k \in Key /\ k[1] = "cycle" BY <2>2, SMT DEF Key
  <2>4. memory[k] \in Totals
    <3>1. Says(k, memory[k]) BY <2>2, <2>3, Zenon DEF TypeOK, Shown
    <3> HIDE DEF k
    <3> QED BY <2>3, <3>1, SMT DEF Says
  <2>5. r = [key |-> k, val |-> memory[k]] BY <2>1
  <2> HIDE DEF k
  <2>6. k[1] \in {"cycle", "task", "metric"} BY <2>3
  <2> QED BY <2>3, <2>4, <2>5, <2>6, TotalRecType, Zenon
<1>4. CASE r = [key |-> <<"task", t>>, val |-> Total(Known(t))]
  <2>1. Total(Known(t)) \in Totals BY TotalType, Zenon DEF Known
  <2>2. <<"task", t>> \in Key
        /\ <<"task", t>>[1] \in {"cycle", "task", "metric"}
    BY SMT DEF Key
  <2> QED BY <1>4, <2>1, <2>2, TotalRecType, Zenon
<1> QED BY <1>1, <1>2, <1>3, <1>4, Zenon DEF FinalRecs

LEMMA HandleType == \A e \in Event : TypeOK /\ Handle(e) => TypeOK'
<1> SUFFICES ASSUME TypeOK, NEW e \in Event, Handle(e) PROVE TypeOK' OBVIOUS
<1>1. PICK by \in {TaskOf[TradeOf[e]], None}, filled \in BOOLEAN :
        call' = Saving(by, {[key |-> <<"event", e>>, val |-> Seen]},
                       IF filled THEN "ledger" ELSE "free",
                       IF filled THEN e ELSE None)
  BY Zenon DEF Handle
<1>2. by \in Task \cup {None} BY ConstantsAssumption, SMT
<1>3. {[key |-> <<"event", e>>, val |-> Seen]} \in SUBSET Rec
  BY EventRecType, Zenon
<1>4. (IF filled THEN "ledger" ELSE "free")
        \in {"free", "ledger", "report", "mark", "final", "cleanup"}
      /\ (IF filled THEN e ELSE None) \in Event \cup {None}
  BY Zenon
<1>5. call' \in Call BY <1>1, <1>2, <1>3, <1>4, SavingType, Zenon
<1> UNCHANGED <<memory, buffer, count, disk, book, task>>
  BY Zenon DEF Handle
<1> QED BY <1>5, SMT DEF TypeOK, disk, book, task

LEMMA FillType == TypeOK /\ CallInv /\ Fill => TypeOK'
<1> SUFFICES ASSUME TypeOK, CallInv, Fill PROVE TypeOK' OBVIOUS
<1> DEFINE e == call.event
           tr == TradeOf[e]
           summary == IF Action[e] = "open"
                      THEN [opened |-> e, closed |-> None]
                      ELSE [opened |-> IF ledger[tr] = None THEN None
                                       ELSE ledger[tr].opened, closed |-> e]
           then == IF Action[e] = "open" THEN "free" ELSE "report"
<1>1. e \in Event BY Zenon DEF Fill, CallInv, Stage
<1>2. tr \in Trade BY <1>1, ConstantsAssumption, Zenon
<1>3. summary \in TradeSummary
  <2>1. CASE Action[e] = "open" BY <1>1, <2>1, SMT DEF TradeSummary
  <2>2. CASE Action[e] # "open" /\ ledger[tr] = None
    BY <1>1, <2>2, SMT DEF TradeSummary
  <2>3. CASE Action[e] # "open" /\ ledger[tr] # None
    <3>1. ledger[tr] \in TradeSummary BY <1>2, <2>3, SMT DEF TypeOK
    <3>2. ledger[tr].opened \in Event \cup {None}
      BY <3>1, SMT DEF TradeSummary
    <3> QED BY <1>1, <2>3, <3>2, SMT DEF TradeSummary
  <2> QED BY <2>1, <2>2, <2>3
<1>4. ledger' = [ledger EXCEPT ![tr] = summary] BY Zenon DEF Fill
<1>5. ledger' \in [Trade -> TradeSummary \cup {None}]
  <2> HIDE DEF summary, tr
  <2> QED BY <1>2, <1>3, <1>4, Zenon DEF TypeOK
<1>6. [call EXCEPT !.then = then] \in Call
  <2>1. then \in {"free", "ledger", "report", "mark", "final", "cleanup"}
    BY Zenon
  <2> HIDE DEF then
  <2> QED BY <2>1, CallTyped, SMT DEF Call
<1>7. Proceed([call EXCEPT !.then = then]) BY Zenon DEF Fill
<1>8. call' \in Call /\ kept' \subseteq Event
  BY <1>6, <1>7, ProceedType, Zenon
<1> QED BY <1>5, <1>8, SMT DEF Fill, TypeOK, disk, task

LEMMA ReportType == TypeOK /\ CallInv /\ Report => TypeOK'
<1> SUFFICES ASSUME TypeOK, CallInv, Report PROVE TypeOK' OBVIOUS
<1> DEFINE tr == TradeOf[call.event]
           cycle == IF CycleOf[tr] = None THEN {}
                    ELSE {CycleRec(CycleOf[tr], TaskOf[tr])}
           todo == {TradeRec(tr)} \cup cycle
<1>1. call.event \in Event BY Zenon DEF Report, CallInv, Stage
<1>2. tr \in Trade BY <1>1, ConstantsAssumption, Zenon
<1>3. TradeRec(tr) \in Rec
  <2>1. ledger[tr] # None BY Zenon DEF Report, CallInv, Stage
  <2>2. Summary(tr) # None BY <2>1, Zenon DEF Summary
  <2> QED BY <1>2, <2>2, TradeRecType
<1>4. cycle \in SUBSET Rec
  <2>1. TaskOf[tr] \in Task /\ CycleOf[tr] \in Cycle \cup {None}
    BY <1>2, ConstantsAssumption, Zenon
  <2> QED BY <2>1, CycleRecType, Zenon
<1>5. todo \in SUBSET Rec BY <1>3, <1>4, Zenon
<1>6. call' = Saving(call.by, todo, "free", call.event) BY Zenon DEF Report
<1>7. call.by \in Task \cup {None} /\ call.event \in Event \cup {None}
  BY CallTyped, SMT DEF Call
<1>8. call' \in Call
  <2> HIDE DEF todo
  <2> QED BY <1>5, <1>6, <1>7, SavingType, Zenon
<1> UNCHANGED <<memory, buffer, count, disk, book, task>>
  BY Zenon DEF Report
<1> QED BY <1>8, SMT DEF TypeOK, disk, book, task

LEMMA OnTickType == \A t \in Task : TypeOK /\ OnTick(t) => TypeOK'
<1> SUFFICES ASSUME TypeOK, NEW t \in Task, OnTick(t) PROVE TypeOK' OBVIOUS
<1>1. PICK time \in now[t]..MaxTime :
        /\ now' = [now EXCEPT ![t] = time]
        /\ call' = IF Due(t, time)
                   THEN Saving(t, {[key |-> <<"metric", <<t, runs[t], time>>>>,
                                    val |-> Total(InLedger(t))]}, "mark", None)
                   ELSE call
  BY Zenon DEF OnTick
<1>2. time \in Time
  <2>1. now[t] \in Time BY Zenon DEF TypeOK
  <2> QED BY <2>1, ConstantsAssumption, SMT DEF Time
<1>3. now' \in [Task -> Time] BY <1>1, <1>2, Zenon DEF TypeOK
<1>4. call' \in Call
  <2>1. CASE ~Due(t, time) BY <1>1, <2>1, CallTyped, Zenon
  <2>2. CASE Due(t, time)
    <3> DEFINE k == <<"metric", <<t, runs[t], time>>>>
               todo == {[key |-> k, val |-> Total(InLedger(t))]}
    <3>1. k \in Key
      <4>1. runs[t] \in 0..MaxRuns BY Zenon DEF TypeOK
      <4> QED BY <1>2, <4>1, SMT DEF Key, Metric
    <3>2. k[1] \in {"cycle", "task", "metric"} BY SMT
    <3>3. Total(InLedger(t)) \in Totals
      BY InLedgerKnown, TotalType, Zenon DEF InLedger
    <3>4. todo \in SUBSET Rec
      <4> HIDE DEF k
      <4> QED BY <3>1, <3>2, <3>3, TotalRecType, Zenon
    <3>5. call' = Saving(t, todo, "mark", None) BY <1>1, <2>2
    <3> HIDE DEF todo
    <3> QED BY <3>4, <3>5, SavingType, Zenon
  <2> QED BY <2>1, <2>2
<1> UNCHANGED <<memory, buffer, count, disk, book, run, runs>>
  BY Zenon DEF OnTick
<1> QED BY <1>3, <1>4, SMT DEF TypeOK, disk, book

LEMMA MarkType == TypeOK /\ CallInv /\ Mark => TypeOK'
<1> SUFFICES ASSUME TypeOK, CallInv, Mark PROVE TypeOK' OBVIOUS
<1>1. call.by \in Task BY Zenon DEF Mark, CallInv, Stage
<1>2. last' \in [Task -> Time \cup {None}]
  <2>1. now[call.by] \in Time BY <1>1, Zenon DEF TypeOK
  <2> QED BY <1>1, <2>1, Zenon DEF Mark, TypeOK
<1>3. [call EXCEPT !.then = "free"] \in Call BY CallTyped, SMT DEF Call
<1>4. call' \in Call /\ kept' \subseteq Event
  BY <1>3, ProceedType, Zenon DEF Mark
<1> QED BY <1>2, <1>4, SMT DEF Mark, TypeOK, disk, task

LEMMA RefuseMetricType == TypeOK /\ RefuseMetric => TypeOK'
<1> SUFFICES ASSUME TypeOK, RefuseMetric PROVE TypeOK' OBVIOUS
<1>1. call' \in Call /\ run' \in [Task -> Phase]
  BY RaiseType, Zenon DEF RefuseMetric
<1> QED BY <1>1, SMT DEF RefuseMetric, TypeOK, disk, book

LEMMA FinishType == \A t \in Task : TypeOK /\ Finish(t) => TypeOK'
<1> SUFFICES ASSUME TypeOK, NEW t \in Task, Finish(t) PROVE TypeOK' OBVIOUS
<1>1. call' = Saving(t, FinalRecs(t), "final", None) BY Zenon DEF Finish
<1>2. call' \in Call BY <1>1, FinalRecsType, SavingType, Zenon
<1>3. run' \in [Task -> Phase]
  <2>1. "finishing" \in Phase BY Zenon DEF Phase
  <2>2. run \in [Task -> Phase] BY Zenon DEF TypeOK
  <2> QED BY <2>1, <2>2, Zenon DEF Finish
<1> QED BY <1>2, <1>3, SMT DEF Finish, TypeOK, disk, book

LEMMA FinalFlushType == TypeOK /\ FinalFlush => TypeOK'
<1> SUFFICES ASSUME TypeOK, FinalFlush PROVE TypeOK' OBVIOUS
<1>1. [call EXCEPT !.pc = "flush", !.at = 1] \in Call
  BY CallTyped, FlushingType
<1>2. \A d \in Call : [d EXCEPT !.then = "cleanup"] \in Call
  BY SMT DEF Call
<1>3. call' = [[call EXCEPT !.pc = "flush", !.at = 1] EXCEPT !.then = "cleanup"]
  BY Zenon DEF FinalFlush
<1>4. call' \in Call BY <1>1, <1>2, <1>3, Zenon
<1> QED BY <1>4, SMT DEF FinalFlush, TypeOK, disk, book, task

LEMMA CleanUpType == TypeOK /\ CallInv /\ CleanUp => TypeOK'
<1> SUFFICES ASSUME TypeOK, CallInv, CleanUp PROVE TypeOK' OBVIOUS
<1>1. ledger' \in [Trade -> TradeSummary \cup {None}]
      /\ last' \in [Task -> Time \cup {None}]
  <2>1. CASE Cleanup
    <3>1. ledger' = [tr \in Trade |->
                       IF TaskOf[tr] = call.by THEN None ELSE ledger[tr]]
      BY <2>1, Zenon DEF CleanUp
    <3>2. ledger' \in [Trade -> TradeSummary \cup {None}]
      BY <3>1, SMT DEF TypeOK
    <3>3. last' \in [Task -> Time \cup {None}]
      BY <2>1, Zenon DEF CleanUp, TypeOK
    <3> QED BY <3>2, <3>3
  <2>2. CASE ~Cleanup BY <2>2, SMT DEF CleanUp, TypeOK
  <2> QED BY <2>1, <2>2
<1>2. run' \in [Task -> Phase]
  <2>1. "finished" \in Phase BY Zenon DEF Phase
  <2>2. run \in [Task -> Phase] BY Zenon DEF TypeOK
  <2> QED BY <2>1, <2>2, Zenon DEF CleanUp
<1>3. call' \in Call BY FreeType, Zenon DEF CleanUp
<1> UNCHANGED <<memory, buffer, count, disk, kept, now, runs>>
  BY Zenon DEF CleanUp
<1> QED BY <1>1, <1>2, <1>3, SMT DEF TypeOK, disk

LEMMA FlushType == TypeOK /\ Flush => TypeOK'
<1> SUFFICES ASSUME TypeOK, Flush PROVE TypeOK' OBVIOUS
<1>1. call' \in Call BY FreeType, Stores1, SMT DEF Flush, Call, Free
<1> QED BY <1>1, SMT DEF Flush, TypeOK, disk, book, task

LEMMA StartType == \A t \in Task : TypeOK /\ Start(t) => TypeOK'
<1> SUFFICES ASSUME TypeOK, NEW t \in Task, Start(t) PROVE TypeOK' OBVIOUS
<1>1. run' \in [Task -> Phase]
  <2>1. "running" \in Phase BY Zenon DEF Phase
  <2>2. run \in [Task -> Phase] BY Zenon DEF TypeOK
  <2> QED BY <2>1, <2>2, Zenon DEF Start
<1>2. runs' \in [Task -> 0..MaxRuns]
  BY ConstantsAssumption, SMT DEF Start, TypeOK
<1>3. now' \in [Task -> Time]
  BY ConstantsAssumption, SMT DEF Start, TypeOK, Time
<1> QED BY <1>1, <1>2, <1>3, SMT DEF Start, TypeOK, disk, book

LEMMA LeaveType == \A t \in Task : TypeOK /\ Leave(t) => TypeOK'
<1> SUFFICES ASSUME TypeOK, NEW t \in Task, Leave(t) PROVE TypeOK' OBVIOUS
<1>1. run' \in [Task -> Phase]
  <2>1. "paused" \in Phase /\ "failing" \in Phase BY Zenon DEF Phase
  <2>2. run \in [Task -> Phase] BY Zenon DEF TypeOK
  <2> QED BY <2>1, <2>2, SMT DEF Leave
<1> QED BY <1>1, SMT DEF Leave, TypeOK, disk, book

LEMMA TypeStep == TypeOK /\ CallInv /\ [Next]_vars => TypeOK'
<1>1. TypeOK /\ UNCHANGED vars => TypeOK' BY SMT DEF TypeOK, vars
<1>2. TypeOK /\ CallInv /\ CallStep => TypeOK'
  BY SaveType, FlushStoreType, RefuseBatchType, FillType, ReportType, MarkType,
     RefuseMetricType, FinalFlushType, CleanUpType, Zenon DEF CallStep
<1> QED BY <1>1, <1>2, FlushType, HandleType, OnTickType, FinishType,
           StartType, LeaveType, Zenon DEF Next

-----------------------------------------------------------------------------
\* The call that holds the lock.

\* A call that goes on saves what is left, or turns to what comes next.
LEMMA ContinueIs ==
  ASSUME NEW c \in Call
  PROVE  \/ Continue(c) = Free /\ c.todo = {} /\ c.then = "free"
         \/ /\ Continue(c).by = c.by /\ Continue(c).event = c.event
            /\ Continue(c).todo = c.todo /\ Continue(c).then = c.then
            /\ Continue(c).pc \in {"save", c.then} \ {"free", "flush"}
            /\ Continue(c).pc # "save" => c.todo = {}
<1>1. CASE c.todo # {} BY <1>1, SMT DEF Continue, Call
<1>2. CASE c.todo = {} /\ c.then = "free" BY <1>2, SMT DEF Continue
<1>3. CASE c.todo = {} /\ c.then # "free" BY <1>3, SMT DEF Continue, Call
<1> QED BY <1>1, <1>2, <1>3

LEMMA FreeCallInv == call' = Free => CallInv'
BY SMT DEF Free, CallInv, Stage

\* The same call, further on.
LEMMA GoOnCallInv ==
  ASSUME TypeOK, CallInv, UNCHANGED <<ledger, run, runs, now>>,
         call'.by = call.by, call'.event = call.event,
         call'.todo \subseteq call.todo, call'.then = call.then,
         call'.pc \in {"save", "flush", call.then} \ {"free"},
         call'.pc \notin {"save", "flush"} => call'.todo = {}
  PROVE  CallInv'
<1>1. Stage' \subseteq Stage \cup {"save", "flush"} BY SMT DEF Stage
<1>2. "mark" \in Stage => call'.todo = {} \/ "mark" \in Stage'
  BY SMT DEF Stage, CallInv
<1>3. Stage' \cap {"ledger", "report"} # {} => call'.event \in Event
  BY <1>1, SMT DEF CallInv
<1>4. "report" \in Stage' => ledger'[TradeOf[call'.event]] # None
  BY <1>1, SMT DEF CallInv
<1>5. Stage' \cap {"mark", "final", "cleanup"} # {} => call'.by \in Task
  BY <1>1, SMT DEF CallInv
<1>6. "mark" \in Stage' => run'[call'.by] = "running"
  BY <1>1, SMT DEF CallInv
<1>7. \A r \in call'.todo : r.key[1] = "metric" =>
        /\ "mark" \in Stage'
        /\ r.key[2] = <<call'.by, runs'[call'.by], now'[call'.by]>>
  BY <1>2, Zenon DEF CallInv
<1> QED BY <1>3, <1>4, <1>5, <1>6, <1>7, SMT DEF CallInv

LEMMA SaveCallInv == TypeOK /\ CallInv /\ Save => CallInv'
<1> SUFFICES ASSUME TypeOK, CallInv, Save PROVE CallInv' OBVIOUS
<1>1. PICK r \in call.todo :
        LET c == [call EXCEPT !.todo = @ \ {r}]
        IN IF count + 1 >= FlushEvery
           THEN call' = [c EXCEPT !.pc = "flush", !.at = 1]
           ELSE Proceed(c)
  BY Zenon DEF Save
<1> DEFINE c == [call EXCEPT !.todo = @ \ {r}]
<1>2. c \in Call /\ c.by = call.by /\ c.event = call.event
      /\ c.todo \subseteq call.todo /\ c.then = call.then
  BY CallTyped, SMT DEF Call
<1>3. UNCHANGED <<ledger, run, runs, now>> BY Zenon DEF Save, task
<1>4. CASE count + 1 >= FlushEvery
  <2>1. call' = [c EXCEPT !.pc = "flush", !.at = 1] BY <1>1, <1>4
  <2> HIDE DEF c
  <2>2. call'.by = call.by /\ call'.event = call.event
        /\ call'.todo \subseteq call.todo /\ call'.then = call.then
        /\ call'.pc = "flush"
    BY <1>2, <2>1, SMT DEF Call
  <2> QED BY <1>3, <2>2, GoOnCallInv, SMT
<1>5. CASE ~(count + 1 >= FlushEvery)
  <2>1. call' = Continue(c) BY <1>1, <1>5, Zenon DEF Proceed
  <2> HIDE DEF c
  <2>2. CASE call' = Free BY <2>2, FreeCallInv
  <2>3. CASE call' # Free
    BY <1>2, <1>3, <2>1, <2>3, ContinueIs, GoOnCallInv, SMT
  <2> QED BY <2>2, <2>3
<1> QED BY <1>4, <1>5

LEMMA FlushStoreCallInv == TypeOK /\ CallInv /\ FlushStore => CallInv'
<1> SUFFICES ASSUME TypeOK, CallInv, FlushStore PROVE CallInv' OBVIOUS
<1>1. call \in Call /\ call.pc = "flush" BY CallTyped, Zenon DEF FlushStore
<1>2. UNCHANGED <<ledger, run, runs, now>> BY Zenon DEF FlushStore, task
<1>3. CASE call.at < Len(Stores)
  <2>1. call' = [call EXCEPT !.at = @ + 1]
    BY <1>3, Zenon DEF FlushStore, Flushed
  <2>2. call'.by = call.by /\ call'.event = call.event
        /\ call'.todo = call.todo /\ call'.then = call.then
        /\ call'.pc = "flush"
    BY <1>1, <2>1, SMT DEF Call
  <2> QED BY <1>2, <2>2, GoOnCallInv, SMT
<1>4. CASE ~(call.at < Len(Stores))
  <2>1. call' = Continue(call)
    BY <1>4, Zenon DEF FlushStore, Flushed, Proceed
  <2>2. CASE call' = Free BY <2>2, FreeCallInv
  <2>3. CASE call' # Free
    BY <1>1, <1>2, <2>1, <2>3, ContinueIs, GoOnCallInv, SMT
  <2> QED BY <2>2, <2>3
<1> QED BY <1>3, <1>4

LEMMA FillCallInv == TypeOK /\ CallInv /\ Fill => CallInv'
<1> SUFFICES ASSUME TypeOK, CallInv, Fill PROVE CallInv' OBVIOUS
<1> DEFINE e == call.event
           tr == TradeOf[e]
           then == IF Action[e] = "open" THEN "free" ELSE "report"
           c == [call EXCEPT !.then = then]
<1>1. call \in Call /\ call.todo = {} /\ call.pc = "ledger"
  BY CallTyped, SMT DEF Fill, CallInv
<1>2. call' = Continue(c) BY Zenon DEF Fill, Proceed
<1>3. CASE Action[e] = "open"
  <2>1. c.todo = {} /\ c.then = "free" BY <1>1, <1>3, SMT DEF Call
  <2>2. call' = Free BY <1>2, <2>1, Zenon DEF Continue
  <2> QED BY <2>2, FreeCallInv
<1>4. CASE Action[e] # "open"
  <2>1. c.todo = {} /\ c.then = "report" /\ c.event = e /\ c.by = call.by
        /\ c \in Call
    BY <1>1, <1>4, SMT DEF Call
  <2>2. call' = [c EXCEPT !.pc = "report"]
    <3> HIDE DEF c
    <3> QED BY <1>2, <2>1, SMT DEF Continue
  <2>3. call'.todo = {} /\ call'.then = "report" /\ call'.event = e
        /\ call'.pc = "report"
    <3> HIDE DEF c, e
    <3> QED BY <2>1, <2>2, SMT DEF Call
  <2>4. e \in Event BY <1>1, Zenon DEF CallInv, Stage
  <2>5. ledger'[tr] # None
    <3>1. tr \in Trade BY <2>4, ConstantsAssumption, Zenon
    <3>2. (ledger')[tr] = [opened |-> IF ledger[tr] = None THEN None
                                      ELSE ledger[tr].opened, closed |-> e]
      BY <1>4, <3>1, SMT DEF Fill, TypeOK
    <3>3. CASE ledger[tr] = None
      <4>1. (ledger')[tr] \in TradeSummary
        BY <2>4, <3>2, <3>3, SMT DEF TradeSummary
      <4> QED BY <4>1, ConstantsAssumption, Zenon DEF Value
    <3>4. CASE ledger[tr] # None
      <4>1. ledger[tr].opened \in Event \cup {None}
        BY <3>1, <3>4, SMT DEF TypeOK, TradeSummary
      <4>2. (ledger')[tr] \in TradeSummary
        BY <2>4, <3>2, <3>4, <4>1, SMT DEF TradeSummary
      <4> QED BY <4>2, ConstantsAssumption, Zenon DEF Value
    <3> QED BY <3>3, <3>4
  <2> QED BY <2>3, <2>4, <2>5, SMT DEF CallInv, Stage
<1> QED BY <1>3, <1>4

LEMMA RefuseCallInv == RefuseBatch \/ RefuseMetric => CallInv'
BY FreeCallInv, Zenon DEF RefuseBatch, RefuseMetric, Raise

\* The batch was written when the metric is marked: nothing is left to save.
LEMMA MarkFrees == TypeOK /\ CallInv /\ Mark => call' = Free
<1> SUFFICES ASSUME TypeOK, CallInv, Mark PROVE call' = Free OBVIOUS
<1> DEFINE c == [call EXCEPT !.then = "free"]
<1>1. call \in Call /\ call.todo = {} BY CallTyped, SMT DEF Mark, CallInv
<1>2. c.todo = {} /\ c.then = "free" BY <1>1, SMT DEF Call
<1>3. call' = Continue(c) BY Zenon DEF Mark, Proceed
<1> QED BY <1>2, <1>3, Zenon DEF Continue

LEMMA MarkCallInv == TypeOK /\ CallInv /\ Mark => CallInv'
BY MarkFrees, FreeCallInv

LEMMA CleanUpCallInv == CleanUp => CallInv'
BY FreeCallInv, Zenon DEF CleanUp

LEMMA FlushCallInv == Flush => CallInv'
<1> SUFFICES ASSUME Flush PROVE CallInv' OBVIOUS
<1>1. call'.pc = "flush" /\ call'.todo = {} /\ call'.then = "free"
  BY SMT DEF Flush, Free
<1> QED BY <1>1, SMT DEF CallInv, Stage

LEMMA FinalFlushCallInv == TypeOK /\ CallInv /\ FinalFlush => CallInv'
<1> SUFFICES ASSUME TypeOK, CallInv, FinalFlush PROVE CallInv' OBVIOUS
<1>1. call \in Call /\ call.todo = {} /\ call.by \in Task
  BY CallTyped, SMT DEF FinalFlush, CallInv, Stage
<1>2. call'.pc = "flush" /\ call'.todo = {} /\ call'.then = "cleanup"
      /\ call'.by = call.by
  BY <1>1, SMT DEF FinalFlush, Call
<1> QED BY <1>1, <1>2, SMT DEF CallInv, Stage

\* A call that starts to save, and what it goes on to.
LEMMA SavingCallInv ==
  ASSUME NEW by, NEW todo, NEW then, NEW event,
         call' = Saving(by, todo, then, event),
         \/ then = "free"
         \/ then = "ledger" /\ event \in Event
         \/ then = "final" /\ by \in Task
         \/ then = "mark" /\ by \in Task /\ run'[by] = "running",
         \A r \in todo : r.key[1] = "metric" =>
           then = "mark" /\ r.key[2] = <<by, runs'[by], now'[by]>>
  PROVE  CallInv'
<1>1. call'.pc = "save" /\ call'.by = by /\ call'.todo = todo
      /\ call'.then = then /\ call'.event = event
  BY Zenon DEF Saving
<1>2. Stage' = {"save", then} BY <1>1, Zenon DEF Stage
<1> QED BY <1>1, <1>2, SMT DEF CallInv

LEMMA HandleCallInv == \A e \in Event : Handle(e) => CallInv'
<1> SUFFICES ASSUME NEW e \in Event, Handle(e) PROVE CallInv' OBVIOUS
<1>1. PICK by \in {TaskOf[TradeOf[e]], None}, filled \in BOOLEAN :
        call' = Saving(by, {[key |-> <<"event", e>>, val |-> Seen]},
                       IF filled THEN "ledger" ELSE "free",
                       IF filled THEN e ELSE None)
  BY Zenon DEF Handle
<1>2. \A r \in {[key |-> <<"event", e>>, val |-> Seen]} : r.key[1] # "metric"
  BY SMT
<1>3. CASE filled BY <1>1, <1>2, <1>3, SavingCallInv, SMT
<1>4. CASE ~filled BY <1>1, <1>2, <1>4, SavingCallInv, SMT
<1> QED BY <1>3, <1>4

LEMMA ReportCallInv == Report => CallInv'
<1> SUFFICES ASSUME Report PROVE CallInv' OBVIOUS
<1> DEFINE tr == TradeOf[call.event]
           cycle == IF CycleOf[tr] = None THEN {}
                    ELSE {CycleRec(CycleOf[tr], TaskOf[tr])}
           todo == {TradeRec(tr)} \cup cycle
<1>1. call' = Saving(call.by, todo, "free", call.event) BY Zenon DEF Report
<1>2. TradeRec(tr).key[1] # "metric" BY SMT DEF TradeRec
<1>3. \A c, t : CycleRec(c, t).key[1] # "metric" BY SMT DEF CycleRec
<1>4. \A r \in todo : r.key[1] # "metric" BY <1>2, <1>3, Zenon
<1> HIDE DEF todo
<1> QED BY <1>1, <1>4, SavingCallInv, SMT

LEMMA OnTickCallInv ==
  \A t \in Task : TypeOK /\ CallInv /\ OnTick(t) => CallInv'
<1> SUFFICES ASSUME TypeOK, CallInv, NEW t \in Task, OnTick(t) PROVE CallInv'
  OBVIOUS
<1>1. PICK time \in now[t]..MaxTime :
        /\ now' = [now EXCEPT ![t] = time]
        /\ call' = IF Due(t, time)
                   THEN Saving(t, {[key |-> <<"metric", <<t, runs[t], time>>>>,
                                    val |-> Total(InLedger(t))]}, "mark", None)
                   ELSE call
  BY Zenon DEF OnTick
<1>2. CASE ~Due(t, time)
  <2>1. call' = Free BY <1>1, <1>2, Zenon DEF OnTick, CallInv
  <2> QED BY <2>1, FreeCallInv
<1>3. CASE Due(t, time)
  <2> DEFINE k == <<"metric", <<t, runs[t], time>>>>
             todo == {[key |-> k, val |-> Total(InLedger(t))]}
  <2>1. call' = Saving(t, todo, "mark", None) BY <1>1, <1>3
  <2>2. run'[t] = "running" /\ runs' = runs BY Zenon DEF OnTick
  <2>3. now'[t] = time BY <1>1, Zenon DEF TypeOK
  <2>4. \A r \in todo : r.key[2] = <<t, runs'[t], now'[t]>>
    BY <2>2, <2>3, SMT
  <2> HIDE DEF todo
  <2> QED BY <2>1, <2>2, <2>4, SavingCallInv, SMT
<1> QED BY <1>2, <1>3

LEMMA FinishCallInv == \A t \in Task : Finish(t) => CallInv'
<1> SUFFICES ASSUME NEW t \in Task, Finish(t) PROVE CallInv' OBVIOUS
<1>1. call' = Saving(t, FinalRecs(t), "final", None) BY Zenon DEF Finish
<1>2. \A r \in FinalRecs(t) : r.key[1] # "metric"
  <2>1. \A tr : TradeRec(tr).key[1] # "metric" BY SMT DEF TradeRec
  <2>2. \A c : CycleRec(c, t).key[1] # "metric" BY SMT DEF CycleRec
  <2>3. \A c : [key |-> <<"cycle", c>>, val |-> memory[<<"cycle", c>>]].key[1]
                # "metric"
    BY SMT
  <2>4. [key |-> <<"task", t>>, val |-> Total(Known(t))].key[1] # "metric"
    BY SMT
  <2> QED BY <2>1, <2>2, <2>3, <2>4, Zenon DEF FinalRecs
<1> QED BY <1>1, <1>2, SavingCallInv, SMT

\* A run that starts or leaves is not the one that measures.
LEMMA OtherRunCallInv ==
  ASSUME TypeOK, CallInv, NEW t \in Task, UNCHANGED <<call, ledger>>,
         run[t] # "running" \/ call.by # t,
         \A u \in Task \ {t} : /\ run'[u] = run[u]
                               /\ runs'[u] = runs[u] /\ now'[u] = now[u]
  PROVE  CallInv'
<1>1. "mark" \in Stage => call.by \in Task \ {t} BY SMT DEF CallInv
<1>2. Stage' = Stage BY Zenon DEF Stage
<1> QED BY <1>1, <1>2, SMT DEF CallInv

LEMMA StartCallInv == \A t \in Task : TypeOK /\ CallInv /\ Start(t) => CallInv'
<1> SUFFICES ASSUME TypeOK, CallInv, NEW t \in Task, Start(t) PROVE CallInv'
  OBVIOUS
<1>1. run[t] # "running" /\ UNCHANGED <<call, ledger>>
  BY SMT DEF Start, book
<1>2. \A u \in Task \ {t} : /\ run'[u] = run[u]
                            /\ runs'[u] = runs[u] /\ now'[u] = now[u]
  BY SMT DEF Start, TypeOK
<1> QED BY <1>1, <1>2, OtherRunCallInv, Zenon

LEMMA LeaveCallInv == \A t \in Task : TypeOK /\ CallInv /\ Leave(t) => CallInv'
<1> SUFFICES ASSUME TypeOK, CallInv, NEW t \in Task, Leave(t) PROVE CallInv'
  OBVIOUS
<1>1. call.by # t /\ UNCHANGED <<call, ledger, runs, now>>
  BY SMT DEF Leave, book
<1>2. \A u \in Task \ {t} : run'[u] = run[u] BY SMT DEF Leave, TypeOK
<1> QED BY <1>1, <1>2, OtherRunCallInv, Zenon

LEMMA CallStepInv == TypeOK /\ CallInv /\ [Next]_vars => CallInv'
<1>1. TypeOK /\ CallInv /\ UNCHANGED vars => CallInv'
  BY SMT DEF CallInv, Stage, vars
<1>2. TypeOK /\ CallInv /\ CallStep => CallInv'
  BY SaveCallInv, FlushStoreCallInv, FillCallInv, RefuseCallInv, MarkCallInv,
     CleanUpCallInv, FinalFlushCallInv, ReportCallInv, Zenon DEF CallStep
<1> QED BY <1>1, <1>2, FlushCallInv, HandleCallInv, OnTickCallInv,
           FinishCallInv, StartCallInv, LeaveCallInv, Zenon DEF Next

-----------------------------------------------------------------------------
\* The batches that wait.

LEMMA StoreLast ==
  ASSUME NEW at \in Store, ~(at < Len(Stores))
  PROVE  \A s \in Store : s = at \/ s \in 1..(at - 1)
BY Stores1, SMT DEF Store

LEMMA SaveBacklog == TypeOK /\ BacklogInv /\ Save => BacklogInv'
<1> SUFFICES ASSUME TypeOK, BacklogInv, Save PROVE BacklogInv' OBVIOUS
<1>1. PICK r \in call.todo :
        /\ buffer' = [s \in Store |-> Append(buffer[s], r)]
        /\ count' = count + 1
        /\ LET c == [call EXCEPT !.todo = @ \ {r}]
           IN IF count + 1 >= FlushEvery
              THEN call' = [c EXCEPT !.pc = "flush", !.at = 1]
              ELSE Proceed(c)
  BY Zenon DEF Save
<1> DEFINE c == [call EXCEPT !.todo = @ \ {r}]
<1>2. c \in Call /\ r \in Rec BY CallTyped, SMT DEF Call
<1>3. \A s \in Store : Len(buffer'[s]) <= count'
  <2> TAKE s \in Store
  <2>1. buffer[s] \in Seq(Rec) BY Zenon DEF TypeOK
  <2>2. Len(Append(buffer[s], r)) = Len(buffer[s]) + 1 BY <1>2, <2>1, SMT
  <2>3. Len(buffer[s]) <= count /\ count \in Nat BY SMT DEF BacklogInv, TypeOK
  <2> QED BY <1>1, <2>1, <2>2, <2>3, SMT
<1>4. CASE count + 1 >= FlushEvery
  <2>1. call' = [c EXCEPT !.pc = "flush", !.at = 1] BY <1>1, <1>4
  <2> HIDE DEF c
  <2>2. call'.pc = "flush" /\ call'.at = 1 BY <1>2, <2>1, SMT DEF Call
  <2> QED BY <1>3, <2>2, SMT DEF BacklogInv
<1>5. CASE ~(count + 1 >= FlushEvery)
  <2>1. call' = Continue(c) BY <1>1, <1>5, Zenon DEF Proceed
  <2> HIDE DEF c
  <2>2. call'.pc # "flush" BY <1>2, <2>1, ContinueIs, SMT DEF Free
  <2>3. count' < FlushEvery
    BY <1>1, <1>5, ConstantsAssumption, SMT DEF TypeOK
  <2> QED BY <1>3, <2>2, <2>3, SMT DEF BacklogInv
<1> QED BY <1>4, <1>5

LEMMA FlushStoreBacklog == TypeOK /\ BacklogInv /\ FlushStore => BacklogInv'
<1> SUFFICES ASSUME TypeOK, BacklogInv, FlushStore PROVE BacklogInv' OBVIOUS
<1>1. call \in Call /\ call.pc = "flush" /\ call.at \in Store
  BY CallTyped, SMT DEF FlushStore, Call
<1>2. buffer' = [buffer EXCEPT ![call.at] = <<>>]
  <2>1. CASE buffer[call.at] = <<>> BY <2>1, SMT DEF FlushStore, TypeOK
  <2>2. CASE buffer[call.at] # <<>> BY <2>2, Zenon DEF FlushStore
  <2> QED BY <2>1, <2>2
<1>3. \A s \in Store : buffer'[s] = IF s = call.at THEN <<>> ELSE buffer[s]
  BY <1>2, Zenon DEF TypeOK
<1>4. \A s \in 1..(call.at - 1) : s \in Store /\ buffer[s] = <<>>
  BY <1>1, Stores1, SMT DEF BacklogInv, Store
<1>5. CASE call.at < Len(Stores)
  <2>1. call' = [call EXCEPT !.at = @ + 1] /\ count' = count
    BY <1>5, Zenon DEF FlushStore, Flushed
  <2>2. call'.pc = "flush" /\ call'.at = call.at + 1
    BY <1>1, <2>1, SMT DEF Call
  <2>3. \A s \in Store : Len(buffer'[s]) <= count'
    BY <1>3, <2>1, SMT DEF BacklogInv, TypeOK
  <2>4. \A s \in 1..(call'.at - 1) : buffer'[s] = <<>>
    <3>1. \A s \in 1..(call'.at - 1) : s = call.at \/ s \in 1..(call.at - 1)
      BY <1>1, <2>2, Stores1, SMT DEF Store
    <3> QED BY <1>1, <1>3, <1>4, <3>1, Zenon
  <2> QED BY <2>2, <2>3, <2>4, SMT DEF BacklogInv
<1>6. CASE ~(call.at < Len(Stores))
  <2>1. call' = Continue(call)
        /\ count' = IF \A s \in Store : buffer'[s] = <<>> THEN 0 ELSE count
    BY <1>6, Zenon DEF FlushStore, Flushed, Proceed
  <2>2. call'.pc # "flush" BY <1>1, <2>1, ContinueIs, SMT DEF Free
  <2>3. \A s \in Store : buffer'[s] = <<>>
    BY <1>1, <1>3, <1>4, <1>6, StoreLast, Zenon
  <2>4. count' = 0 BY <2>1, <2>3
  <2>5. \A s \in Store : Len(buffer'[s]) <= count' BY <2>3, <2>4, SMT
  <2> QED BY <2>2, <2>4, <2>5, ConstantsAssumption, SMT DEF BacklogInv
<1> QED BY <1>5, <1>6

LEMMA RefuseBatchBacklog == BacklogInv /\ RefuseBatch => BacklogInv'
<1> SUFFICES ASSUME BacklogInv, RefuseBatch PROVE BacklogInv' OBVIOUS
<1>1. call'.pc = "free" /\ failed' # {} /\ UNCHANGED <<buffer, count>>
  BY SMT DEF RefuseBatch, Raise, Free
<1> QED BY <1>1, SMT DEF BacklogInv

\* A step that neither saves nor flushes, and one that starts to flush.
LEMMA IdleBacklog ==
  ASSUME BacklogInv, UNCHANGED <<buffer, count, failed>>,
         (call.pc # "flush" /\ call'.pc # "flush") \/ UNCHANGED call
  PROVE  BacklogInv'
BY SMT DEF BacklogInv

LEMMA FlushingBacklog ==
  ASSUME BacklogInv, UNCHANGED <<buffer, count, failed>>,
         call'.pc = "flush", call'.at = 1
  PROVE  BacklogInv'
BY SMT DEF BacklogInv

LEMMA BacklogStep == TypeOK /\ CallInv /\ BacklogInv /\ [Next]_vars => BacklogInv'
<1> SUFFICES ASSUME TypeOK, CallInv, BacklogInv, [Next]_vars PROVE BacklogInv'
  OBVIOUS
<1>1. CASE UNCHANGED vars BY <1>1, IdleBacklog, Zenon DEF vars, disk
<1>2. CASE Save BY <1>2, SaveBacklog
<1>3. CASE FlushStore BY <1>3, FlushStoreBacklog
<1>4. CASE RefuseBatch BY <1>4, RefuseBatchBacklog
<1>5. CASE Fill
  <2> DEFINE c == [call EXCEPT !.then =
                     IF Action[call.event] = "open" THEN "free" ELSE "report"]
  <2>1. c \in Call
    <3>1. (IF Action[call.event] = "open" THEN "free" ELSE "report")
            \in {"free", "ledger", "report", "mark", "final", "cleanup"}
      BY Zenon
    <3> QED BY <3>1, CallTyped, SMT DEF Call
  <2>2. call' = Continue(c) /\ call.pc = "ledger"
        /\ UNCHANGED <<buffer, count, failed>>
    BY <1>5, Zenon DEF Fill, Proceed, disk
  <2>3. call'.pc # "flush"
    <3> HIDE DEF c
    <3> QED BY <2>1, <2>2, ContinueIs, SMT DEF Free
  <2> QED BY <2>2, <2>3, IdleBacklog, SMT
<1>6. CASE Report
  BY <1>6, IdleBacklog, SMT DEF Report, Saving, disk
<1>7. CASE Mark
  <2>1. call' = Free BY <1>7, MarkFrees
  <2> QED BY <1>7, <2>1, IdleBacklog, SMT DEF Mark, Free, disk
<1>8. CASE RefuseMetric
  BY <1>8, IdleBacklog, SMT DEF RefuseMetric, Raise, Free, disk
<1>9. CASE FinalFlush
  <2>1. call'.pc = "flush" /\ call'.at = 1
    BY <1>9, CallTyped, SMT DEF FinalFlush, Call
  <2> QED BY <1>9, <2>1, FlushingBacklog, Zenon DEF FinalFlush, disk
<1>10. CASE CleanUp BY <1>10, IdleBacklog, SMT DEF CleanUp, Free, disk
<1>11. CASE Flush
  <2>1. call'.pc = "flush" /\ call'.at = 1 BY <1>11, SMT DEF Flush, Free
  <2> QED BY <1>11, <2>1, FlushingBacklog, Zenon DEF Flush, disk
<1>12. ASSUME NEW e \in Event, Handle(e) PROVE BacklogInv'
  <2>1. call.pc = "free" /\ call'.pc = "save"
        /\ UNCHANGED <<buffer, count, failed>>
    BY <1>12, SavingIs, SMT DEF Handle, disk
  <2> QED BY <2>1, IdleBacklog, SMT
<1>13. ASSUME NEW t \in Task, OnTick(t) PROVE BacklogInv'
  <2>1. call.pc = "free" /\ UNCHANGED <<buffer, count, failed>>
    BY <1>13, Zenon DEF OnTick, disk
  <2>2. call'.pc = "save" \/ call' = call
    <3>1. PICK time :
            call' = IF Due(t, time)
                    THEN Saving(t, {[key |-> <<"metric", <<t, runs[t], time>>>>,
                                     val |-> Total(InLedger(t))]}, "mark", None)
                    ELSE call
      BY <1>13, Zenon DEF OnTick
    <3>2. CASE Due(t, time) BY <3>1, <3>2, SavingIs, SMT
    <3>3. CASE ~Due(t, time) BY <3>1, <3>3, Zenon
    <3> QED BY <3>2, <3>3
  <2> QED BY <2>1, <2>2, IdleBacklog, SMT
<1>14. ASSUME NEW t \in Task, Finish(t) PROVE BacklogInv'
  <2>1. call' = Saving(t, FinalRecs(t), "final", None)
    BY <1>14, Zenon DEF Finish
  <2>2. call.pc = "free" /\ call'.pc = "save"
        /\ UNCHANGED <<buffer, count, failed>>
    BY <1>14, <2>1, SavingIs, SMT DEF Finish, disk
  <2> QED BY <2>2, IdleBacklog, SMT
<1>15. ASSUME NEW t \in Task, Start(t) \/ Leave(t) PROVE BacklogInv'
  BY <1>15, IdleBacklog, Zenon DEF Start, Leave, disk
<1> QED BY <1>1, <1>2, <1>3, <1>4, <1>5, <1>6, <1>7, <1>8, <1>9, <1>10, <1>11,
           <1>12, <1>13, <1>14, <1>15, Zenon DEF Next, CallStep

-----------------------------------------------------------------------------
\* The stores and memory.

\* A record appended to a buffer and saved in memory is the newest of its key.
LEMMA AppendFollows ==
  ASSUME NEW q \in Seq(Rec), NEW r \in Rec, NEW k \in Key, NEW shown, NEW val,
         Follows(shown, q, k, val)
  PROVE  Follows(shown, Append(q, r), k, IF k = r.key THEN r.val ELSE val)
<1> DEFINE p == Append(q, r)
           at == {i \in 1..Len(q) : q[i].key = k}
           pt == {i \in 1..Len(p) : p[i].key = k}
<1>1. Len(q) \in Nat /\ Len(p) = Len(q) + 1 /\ p[Len(q) + 1] = r
      /\ \A i \in 1..Len(q) : p[i] = q[i]
  BY SMT
<1> HIDE DEF p
<1>2. CASE k = r.key
  <2>1. Len(p) \in pt /\ p[Len(p)].val = r.val BY <1>1, <1>2, SMT
  <2>2. \A j \in pt : j <= Len(p) BY <1>1, SMT
  <2>3. Follows(shown, p, k, r.val) BY <2>1, <2>2, SMT DEF Follows
  <2> QED BY <1>2, <2>3 DEF p
<1>3. CASE k # r.key
  <2>1. pt = at
    <3>1. \A i \in 1..Len(p) : i \in 1..Len(q) \/ i = Len(q) + 1 BY <1>1, SMT
    <3>2. \A i \in 1..Len(q) : i \in 1..Len(p) BY <1>1, SMT
    <3>3. \A i \in pt : i \in at BY <1>1, <1>3, <3>1, Zenon
    <3>4. \A i \in at : i \in pt BY <1>1, <3>2, Zenon
    <3> QED BY <3>3, <3>4, Zenon
  <2>2. \A i \in at : p[i] = q[i] BY <1>1
  <2>3. IF at = {} THEN shown[k] = val
        ELSE \E i \in at : q[i].val = val /\ \A j \in at : j <= i
    BY Zenon DEF Follows
  <2>4. IF pt = {} THEN shown[k] = val
        ELSE \E i \in pt : p[i].val = val /\ \A j \in pt : j <= i
    <3> HIDE DEF at, pt
    <3> QED BY <2>1, <2>2, <2>3, Zenon
  <2> QED BY <1>3, <2>4, Zenon DEF Follows, p
<1> QED BY <1>2, <1>3

\* A batch that was taken leaves what memory says.
LEMMA WrittenFollows ==
  ASSUME NEW q \in Seq(Rec), NEW k \in Key, NEW shown, NEW val,
         Follows(shown, q, k, val)
  PROVE  Written(q, 1..Len(q), shown)[k] = val
<1> DEFINE at == {i \in 1..Len(q) : q[i].key = k}
           P(i) == q[i].key = k /\ \A j \in 1..Len(q) : q[j].key = k => j <= i
<1>1. CASE at = {}
  <2>1. ~ \E i \in 1..Len(q) : q[i].key = k BY <1>1
  <2> QED BY <1>1, <2>1, Zenon DEF Written, Follows
<1>2. CASE at # {}
  <2>1. PICK i \in at : q[i].val = val /\ \A j \in at : j <= i
    BY <1>2, Zenon DEF Follows
  <2>2. i \in 1..Len(q) /\ P(i) BY <2>1
  <2>3. \A m \in 1..Len(q) : P(m) => m = i BY <2>2, SMT
  <2>4. (CHOOSE m \in 1..Len(q) : P(m)) = i BY <2>2, <2>3, Zenon
  <2>5. Written(q, 1..Len(q), shown)[k] = q[i].val
    BY <2>2, <2>4, Zenon DEF Written
  <2> QED BY <2>1, <2>5
<1> QED BY <1>1, <1>2

\* A batch that was refused changes only what is still buffered.
LEMMA RefusedFollows ==
  ASSUME NEW q \in Seq(Rec), NEW I \in SUBSET (1..Len(q)), NEW k \in Key,
         NEW shown, NEW val, Follows(shown, q, k, val)
  PROVE  Follows(Written(q, I, shown), q, k, val)
<1> DEFINE at == {i \in 1..Len(q) : q[i].key = k}
<1>1. CASE at = {}
  <2>1. ~ \E i \in I : q[i].key = k BY <1>1
  <2>2. Written(q, I, shown)[k] = shown[k] BY <2>1, Zenon DEF Written
  <2> QED BY <1>1, <2>2, Zenon DEF Follows
<1>2. CASE at # {} BY <1>2, Zenon DEF Follows
<1> QED BY <1>1, <1>2

LEMMA FollowsStep == TypeOK /\ StoresFollow /\ [Next]_vars => StoresFollow'
<1> SUFFICES ASSUME TypeOK, StoresFollow, [Next]_vars,
                    NEW s \in Store, NEW k \in Key
             PROVE  Follows(view'[s], buffer'[s], k, memory'[k])
  BY Zenon DEF StoresFollow
<1>1. Follows(view[s], buffer[s], k, memory[k]) /\ buffer[s] \in Seq(Rec)
  BY Zenon DEF StoresFollow, TypeOK
<1>2. CASE Save
  <2>1. PICK r \in call.todo :
          /\ memory' = [memory EXCEPT ![r.key] = r.val]
          /\ buffer' = [u \in Store |-> Append(buffer[u], r)]
    BY <1>2, Zenon DEF Save
  <2>2. r \in Rec BY CallTyped, SMT DEF Call
  <2>3. memory'[k] = IF k = r.key THEN r.val ELSE memory[k]
    BY <2>1, SMT DEF TypeOK, Shown
  <2>4. buffer'[s] = Append(buffer[s], r) /\ view' = view
    BY <1>2, <2>1, Zenon DEF Save, disk
  <2> QED BY <1>1, <2>2, <2>3, <2>4, AppendFollows, Zenon
<1>3. CASE FlushStore
  <2>1. CASE s # call.at \/ buffer[s] = <<>>
    <3>1. UNCHANGED memory /\ view'[s] = view[s] /\ buffer'[s] = buffer[s]
      BY <1>3, <2>1, SMT DEF FlushStore, TypeOK, disk
    <3> QED BY <1>1, <3>1, Zenon
  <2>2. CASE s = call.at /\ buffer[s] # <<>>
    <3>1. /\ view'[s] = Written(buffer[s], 1..Len(buffer[s]), view[s])
          /\ buffer'[s] = <<>> /\ UNCHANGED memory
      BY <1>3, <2>2, Zenon DEF FlushStore, TypeOK
    <3>2. view'[s][k] = memory[k] BY <1>1, <3>1, WrittenFollows
    <3>3. {i \in 1..Len(<<>>) : <<>>[i].key = k} = {} BY SMT
    <3>4. Follows(view'[s], <<>>, k, memory[k])
      BY <3>2, <3>3, SMT DEF Follows
    <3> QED BY <3>1, <3>4, Zenon
  <2> QED BY <2>1, <2>2
<1>4. CASE RefuseBatch
  <2>1. UNCHANGED <<memory, buffer>> BY <1>4, Zenon DEF RefuseBatch
  <2>2. PICK I \in Landed(call.at) :
          view' = [view EXCEPT ![call.at] = Written(buffer[call.at], I, @)]
    BY <1>4, Zenon DEF RefuseBatch
  <2>3. CASE s # call.at
    <3>1. view'[s] = view[s] BY <2>2, <2>3, Zenon DEF TypeOK
    <3> QED BY <1>1, <2>1, <3>1, Zenon
  <2>4. CASE s = call.at
    <3>1. view'[s] = Written(buffer[s], I, view[s])
      BY <2>2, <2>4, Zenon DEF TypeOK
    <3>2. I \in SUBSET (1..Len(buffer[s])) BY <2>2, <2>4, LandedType
    <3> QED BY <1>1, <2>1, <3>1, <3>2, RefusedFollows, Zenon
  <2> QED BY <2>3, <2>4
<1>5. CASE UNCHANGED <<memory, view, buffer>> BY <1>1, <1>5, Zenon
<1>6. Save \/ FlushStore \/ RefuseBatch \/ UNCHANGED <<memory, view, buffer>>
  BY Zenon DEF Next, CallStep, Fill, Report, Mark, RefuseMetric, FinalFlush,
     CleanUp, Flush, Handle, OnTick, Finish, Start, Leave, disk, vars
<1> QED BY <1>2, <1>3, <1>4, <1>5, <1>6

-----------------------------------------------------------------------------
\* The metrics.

LEMMA Bounds == /\ MaxRuns \in Nat /\ Interval \in Nat
                /\ Time \subseteq Nat /\ 0..MaxRuns \subseteq Nat
                /\ None \notin Task /\ None \notin Time
BY ConstantsAssumption, SMT DEF Time

\* Outside a save and a flush, a call measures just when it is about to mark.
LEMMA MeasuringOnly ==
  ASSUME CallInv, NEW t, call.pc \notin {"save", "flush", "mark"}
  PROVE  ~Measuring(t)
BY SMT DEF CallInv, Measuring, Stage

LEMMA FreeMeasures ==
  ASSUME NEW t, call' = Free
  PROVE  ~Measuring(t)'
BY SMT DEF Measuring, Stage, Free

\* Saving and flushing do not change what a call measures.
LEMMA MeasuringKept ==
  ASSUME TypeOK, CallInv, Save \/ FlushStore, NEW t
  PROVE  Measuring(t)' <=> Measuring(t)
<1>1. call \in Call /\ call.pc \in {"save", "flush"}
  BY CallTyped, Zenon DEF Save, FlushStore
<1>2. \/ call' = Free /\ call.then = "free"
      \/ /\ call'.by = call.by /\ call'.then = call.then
         /\ call'.pc \in {"save", "flush", call.then}
  <2>1. CASE Save
    <3>1. PICK r \in call.todo :
            LET c == [call EXCEPT !.todo = @ \ {r}]
            IN IF count + 1 >= FlushEvery
               THEN call' = [c EXCEPT !.pc = "flush", !.at = 1]
               ELSE Proceed(c)
      BY <2>1, Zenon DEF Save
    <3> DEFINE c == [call EXCEPT !.todo = @ \ {r}]
    <3>2. c \in Call /\ c.by = call.by /\ c.then = call.then
      BY <1>1, SMT DEF Call
    <3>3. call' = [c EXCEPT !.pc = "flush", !.at = 1] \/ call' = Continue(c)
      BY <3>1, Zenon DEF Proceed
    <3> HIDE DEF c
    <3>4. CASE call' = [c EXCEPT !.pc = "flush", !.at = 1]
      BY <3>2, <3>4, SMT DEF Call
    <3>5. CASE call' = Continue(c) BY <3>2, <3>5, ContinueIs, SMT
    <3> QED BY <3>3, <3>4, <3>5
  <2>2. CASE FlushStore
    <3>1. call' = [call EXCEPT !.at = @ + 1] \/ call' = Continue(call)
      BY <2>2, Zenon DEF FlushStore, Flushed, Proceed
    <3>2. CASE call' = [call EXCEPT !.at = @ + 1]
      BY <1>1, <3>2, SMT DEF Call
    <3>3. CASE call' = Continue(call) BY <1>1, <3>3, ContinueIs, SMT
    <3> QED BY <3>1, <3>2, <3>3
  <2> QED BY <2>1, <2>2
<1> QED BY <1>1, <1>2, SMT DEF Measuring, Stage, Free

\* The record of a metric about to be saved is that of the tick it is for.
LEMMA MetricKey ==
  ASSUME NEW t, NEW n, NEW x, NEW u, NEW m, NEW y,
         <<"metric", <<t, n, x>>>> = <<"metric", <<u, m, y>>>>
  PROVE  t = u /\ n = m /\ x = y
BY SMT

LEMMA SaveMetrics ==
  TypeOK /\ CallInv /\ MetricInv /\ MetricsSpaced /\ Save
    => MetricInv' /\ MetricsSpaced'
<1> SUFFICES ASSUME TypeOK, CallInv, MetricInv, MetricsSpaced, Save
             PROVE  MetricInv' /\ MetricsSpaced'
  OBVIOUS
<1>1. PICK r \in call.todo : memory' = [memory EXCEPT ![r.key] = r.val]
  BY Zenon DEF Save
<1>2. UNCHANGED <<last, now, run, runs>> BY Zenon DEF Save, task
<1>3. r.key[1] = "metric" =>
        "mark" \in Stage /\ r.key[2] = <<call.by, runs[call.by], now[call.by]>>
  BY Zenon DEF CallInv
<1>4. \A t \in Task, n \in 0..MaxRuns, x \in Time : Measured(t, n, x)' =>
        \/ Measured(t, n, x)
        \/ Measuring(t) /\ n = runs[t] /\ x = now[t] /\ run[t] = "running"
  <2> TAKE t \in Task, n \in 0..MaxRuns, x \in Time
  <2> DEFINE k == <<"metric", <<t, n, x>>>>
  <2>1. k \in Key BY SMT DEF Key, Metric
  <2>2. CASE r.key # k
    <3>1. memory'[k] = memory[k]
      <4> HIDE DEF k
      <4> QED BY <1>1, <2>1, <2>2, Zenon DEF TypeOK, Shown
    <3> QED BY <3>1, Zenon DEF Measured
  <2>3. CASE r.key = k
    <3>1. r.key[1] = "metric" /\ r.key[2] = <<t, n, x>> BY <2>3, SMT
    <3>2. "mark" \in Stage /\ t = call.by /\ n = runs[call.by]
          /\ x = now[call.by]
      BY <1>3, <3>1, SMT
    <3> QED BY <3>2, Zenon DEF Measuring, CallInv
  <2> QED BY <2>2, <2>3
<1>5. \A t : Measuring(t)' <=> Measuring(t) BY MeasuringKept, Zenon
<1>6. now \in [Task -> Time] /\ runs \in [Task -> 0..MaxRuns]
  BY Zenon DEF TypeOK
<1>7. MetricInv'
  <2> SUFFICES ASSUME NEW t \in Task, NEW n \in 0..MaxRuns, NEW x \in Time,
                      Measured(t, n, x)'
               PROVE  /\ n <= runs'[t]
                      /\ n = runs'[t] /\ run'[t] = "running" =>
                           /\ x <= now'[t]
                           /\ Measuring(t)' =>
                                x = now'[t] \/ now'[t] - x >= Interval
                           /\ ~Measuring(t)' => last'[t] # None /\ x <= last'[t]
    BY Zenon DEF MetricInv
  <2>1. CASE Measured(t, n, x)
    BY <1>2, <1>5, <2>1, Zenon DEF MetricInv
  <2>2. CASE Measuring(t) /\ n = runs[t] /\ x = now[t]
    BY <1>2, <1>5, <1>6, <2>2, Bounds, SMT
  <2> QED BY <1>4, <2>1, <2>2
<1>8. MetricsSpaced'
  <2> SUFFICES ASSUME NEW t \in Task, NEW n \in 0..MaxRuns,
                      NEW x \in Time, NEW y \in Time, x < y,
                      Measured(t, n, x)', Measured(t, n, y)'
               PROVE  y - x >= Interval
    BY SMT DEF MetricsSpaced, Measured
  <2>1. CASE Measured(t, n, x) /\ Measured(t, n, y)
    BY <2>1, SMT DEF MetricsSpaced, Measured
  <2>2. CASE Measured(t, n, x) /\ ~Measured(t, n, y)
    <3>1. Measuring(t) /\ n = runs[t] /\ y = now[t] /\ run[t] = "running"
      BY <1>4, <2>2
    <3>2. x = now[t] \/ now[t] - x >= Interval
      BY <2>2, <3>1, Zenon DEF MetricInv
    <3> QED BY <3>1, <3>2, Bounds, SMT
  <2>3. CASE ~Measured(t, n, x)
    <3>1. Measuring(t) /\ n = runs[t] /\ x = now[t] /\ run[t] = "running"
      BY <1>4, <2>3
    <3>2. CASE Measured(t, n, y)
      <4>1. y <= now[t] BY <3>1, <3>2, Zenon DEF MetricInv
      <4> QED BY <3>1, <4>1, Bounds, SMT
    <3>3. CASE ~Measured(t, n, y)
      <4>1. y = now[t] BY <1>4, <3>3
      <4> QED BY <3>1, <4>1, Bounds, SMT
    <3> QED BY <3>2, <3>3
  <2> QED BY <2>1, <2>2, <2>3
<1> QED BY <1>7, <1>8

\* A step that saves nothing, and measures as before in every run that goes on.
LEMMA MetricFrame ==
  ASSUME MetricInv, MetricsSpaced, UNCHANGED memory,
         \A t \in Task :
           /\ runs'[t] = runs[t]
           /\ run'[t] = "running" =>
                /\ run[t] = "running"
                /\ now'[t] = now[t] /\ last'[t] = last[t]
                /\ Measuring(t)' <=> Measuring(t)
  PROVE  MetricInv' /\ MetricsSpaced'
<1>1. MetricsSpaced' BY Zenon DEF MetricsSpaced
<1>2. \A t, n, x : Measured(t, n, x)' <=> Measured(t, n, x)
  BY Zenon DEF Measured
<1>3. MetricInv' BY <1>2, SMT DEF MetricInv
<1> QED BY <1>1, <1>3

LEMMA RaiseMetrics ==
  ASSUME TypeOK, CallInv, MetricInv, MetricsSpaced, Raise,
         UNCHANGED <<memory, last, now, runs>>
  PROVE  MetricInv' /\ MetricsSpaced'
<1> SUFFICES ASSUME NEW t \in Task, run'[t] = "running"
             PROVE  run[t] = "running" /\ (Measuring(t)' <=> Measuring(t))
  BY MetricFrame, Zenon
<1>1. call' = Free BY Zenon DEF Raise
<1>2. run[t] = "running" /\ t # call.by
  <2>1. CASE call.by = None BY <2>1, Bounds, SMT DEF Raise
  <2>2. CASE call.by # None /\ t # call.by
    BY <2>2, SMT DEF Raise, TypeOK
  <2>3. CASE call.by # None /\ t = call.by
    <3>1. run'[t] \in {"failing", "dead"} BY <2>3, SMT DEF Raise, TypeOK
    <3> QED BY <3>1
  <2> QED BY <2>1, <2>2, <2>3
<1> QED BY <1>1, <1>2, FreeMeasures, SMT DEF Measuring

LEMMA OnTickMetrics ==
  \A t \in Task : TypeOK /\ CallInv /\ MetricInv /\ MetricsSpaced /\ OnTick(t)
                  => MetricInv' /\ MetricsSpaced'
<1> SUFFICES ASSUME TypeOK, CallInv, MetricInv, MetricsSpaced,
                    NEW t \in Task, OnTick(t)
             PROVE  MetricInv' /\ MetricsSpaced'
  OBVIOUS
<1>1. PICK time \in now[t]..MaxTime :
        /\ now' = [now EXCEPT ![t] = time]
        /\ call' = IF Due(t, time)
                   THEN Saving(t, {[key |-> <<"metric", <<t, runs[t], time>>>>,
                                    val |-> Total(InLedger(t))]}, "mark", None)
                   ELSE call
  BY Zenon DEF OnTick
<1>2. UNCHANGED <<memory, last, run, runs>> /\ call.pc = "free"
  BY Zenon DEF OnTick, book
<1>3. \A u : ~Measuring(u) BY <1>2, MeasuringOnly, SMT
<1>4. now[t] \in Nat /\ now'[t] = time /\ now[t] <= time /\ time \in Nat
      /\ \A u \in Task \ {t} : now'[u] = now[u]
  <2>1. now \in [Task -> Time] BY Zenon DEF TypeOK
  <2>2. now[t] \in Nat BY <2>1, Bounds, Zenon
  <2>3. now[t] <= time /\ time \in Nat
    BY <2>2, ConstantsAssumption, SMT
  <2>4. now'[t] = time /\ \A u \in Task \ {t} : now'[u] = now[u]
    BY <1>1, <2>1, Zenon
  <2> QED BY <2>2, <2>3, <2>4
<1>5. \A u \in Task : Measuring(u)' => u = t /\ Due(t, time)
  <2>1. CASE Due(t, time)
    <3>1. call'.by = t BY <1>1, <2>1, SavingIs, SMT
    <3> QED BY <2>1, <3>1, Zenon DEF Measuring
  <2>2. CASE ~Due(t, time)
    <3>1. call' = call BY <1>1, <2>2
    <3> QED BY <1>3, <3>1, Zenon DEF Measuring, Stage
  <2> QED BY <2>1, <2>2
<1>6. MetricsSpaced' BY <1>2, Zenon DEF MetricsSpaced
<1>7. \A u, n, x : Measured(u, n, x)' <=> Measured(u, n, x)
  BY <1>2, Zenon DEF Measured
<1>8. MetricInv'
  <2> SUFFICES ASSUME NEW u \in Task, NEW n \in 0..MaxRuns, NEW x \in Time,
                      Measured(u, n, x)
               PROVE  /\ n <= runs'[u]
                      /\ n = runs'[u] /\ run'[u] = "running" =>
                           /\ x <= now'[u]
                           /\ Measuring(u)' =>
                                x = now'[u] \/ now'[u] - x >= Interval
                           /\ ~Measuring(u)' => last'[u] # None /\ x <= last'[u]
    BY <1>7, Zenon DEF MetricInv
  <2>1. /\ n <= runs[u]
        /\ n = runs[u] /\ run[u] = "running" =>
             x <= now[u] /\ last[u] # None /\ x <= last[u]
    BY <1>3, Zenon DEF MetricInv
  <2>2. CASE u # t BY <1>2, <1>4, <1>5, <2>1, <2>2, Zenon
  <2>3. CASE u = t
    <3>1. last[t] \in Time \cup {None} BY Zenon DEF TypeOK
    <3>2. Measuring(t)' /\ last[t] # None => time - last[t] >= Interval
      BY <1>5, Zenon DEF Due
    <3>3. x \in Nat BY Bounds, Zenon
    <3>4. n <= runs'[u] BY <1>2, <2>1
    <3> SUFFICES ASSUME n = runs[u], run[u] = "running"
                 PROVE  /\ x <= time
                        /\ Measuring(t)' => time - x >= Interval
                        /\ last[t] # None /\ x <= last[t]
      BY <1>2, <1>4, <2>3, <3>4, Zenon
    <3>5. last[t] # None /\ x <= last[t] /\ x <= now[t]
      BY <2>1, <2>3, Zenon
    <3>6. last[t] \in Nat BY <3>1, <3>5, Bounds, Zenon
    <3> QED BY <1>4, <3>2, <3>3, <3>5, <3>6, Bounds, SMT
  <2> QED BY <2>2, <2>3
<1> QED BY <1>6, <1>8

LEMMA MarkMetrics ==
  TypeOK /\ CallInv /\ MetricInv /\ MetricsSpaced /\ Mark
    => MetricInv' /\ MetricsSpaced'
<1> SUFFICES ASSUME TypeOK, CallInv, MetricInv, MetricsSpaced, Mark
             PROVE  MetricInv' /\ MetricsSpaced'
  OBVIOUS
<1>1. call.by \in Task /\ "mark" \in Stage BY Zenon DEF Mark, CallInv, Stage
<1>2. last' = [last EXCEPT ![call.by] = now[call.by]]
      /\ UNCHANGED <<memory, now, run, runs>>
  BY Zenon DEF Mark, task
<1>3. \A u \in Task : last'[u] = IF u = call.by THEN now[u] ELSE last[u]
  BY <1>1, <1>2, Zenon DEF TypeOK
<1>4. \A u : ~Measuring(u)' BY MarkFrees, FreeMeasures, Zenon
<1>5. MetricsSpaced' BY <1>2, Zenon DEF MetricsSpaced
<1>6. \A u, n, x : Measured(u, n, x)' <=> Measured(u, n, x)
  BY <1>2, Zenon DEF Measured
<1>7. \A u \in Task : now[u] \in Time /\ now[u] # None
  <2>1. now \in [Task -> Time] BY Zenon DEF TypeOK
  <2> QED BY <2>1, Bounds, SMT
<1>8. \A u \in Task : u # call.by => ~Measuring(u) BY Zenon DEF Measuring
<1>9. MetricInv'
  BY <1>2, <1>3, <1>4, <1>6, <1>7, <1>8, SMT DEF MetricInv
<1> QED BY <1>5, <1>9

LEMMA StartMetrics ==
  \A t \in Task : TypeOK /\ MetricInv /\ MetricsSpaced /\ Start(t)
                  => MetricInv' /\ MetricsSpaced'
<1> SUFFICES ASSUME TypeOK, MetricInv, MetricsSpaced, NEW t \in Task, Start(t)
             PROVE  MetricInv' /\ MetricsSpaced'
  OBVIOUS
<1>1. UNCHANGED <<memory, call, last>> BY Zenon DEF Start, book
<1>2. \A u \in Task \ {t} : run'[u] = run[u] /\ runs'[u] = runs[u]
                            /\ now'[u] = now[u]
  BY SMT DEF Start, TypeOK
<1>3. runs'[t] = runs[t] + 1 /\ \A u \in Task : runs[u] \in Nat
  BY Bounds, SMT DEF Start, TypeOK
<1>4. MetricsSpaced' BY <1>1, Zenon DEF MetricsSpaced
<1>5. \A u, n, x : Measured(u, n, x)' <=> Measured(u, n, x)
  BY <1>1, Zenon DEF Measured
<1>6. \A u : Measuring(u)' <=> Measuring(u) BY <1>1, Zenon DEF Measuring, Stage
<1>7. MetricInv'
  <2> SUFFICES ASSUME NEW u \in Task, NEW n \in 0..MaxRuns, NEW x \in Time,
                      Measured(u, n, x)
               PROVE  /\ n <= runs'[u]
                      /\ n = runs'[u] /\ run'[u] = "running" =>
                           /\ x <= now'[u]
                           /\ Measuring(u)' =>
                                x = now'[u] \/ now'[u] - x >= Interval
                           /\ ~Measuring(u)' => last'[u] # None /\ x <= last'[u]
    BY <1>5, Zenon DEF MetricInv
  <2>1. CASE u = t
    <3>1. n <= runs[t] BY <2>1, Zenon DEF MetricInv
    <3> QED BY <1>3, <2>1, <3>1, Bounds, SMT
  <2>2. CASE u # t BY <1>1, <1>2, <1>6, <2>2, Zenon DEF MetricInv
  <2> QED BY <2>1, <2>2
<1> QED BY <1>4, <1>7

\* A call that starts without measuring, in place of one that did not.
LEMMA OtherCallMetrics ==
  ASSUME CallInv, MetricInv, MetricsSpaced,
         UNCHANGED <<memory, last, now, run, runs>>,
         call.pc \notin {"save", "flush", "mark"},
         call'.pc # "mark" /\ call'.then # "mark"
  PROVE  MetricInv' /\ MetricsSpaced'
<1>1. \A t : ~Measuring(t) BY MeasuringOnly, Zenon
<1>2. \A t : ~Measuring(t)' BY SMT DEF Measuring, Stage
<1> QED BY <1>1, <1>2, MetricFrame, Zenon

LEMMA MetricStep ==
  TypeOK /\ CallInv /\ MetricInv /\ MetricsSpaced /\ [Next]_vars
    => MetricInv' /\ MetricsSpaced'
<1> DEFINE Good == MetricInv /\ MetricsSpaced
<1> SUFFICES ASSUME TypeOK, CallInv, MetricInv, MetricsSpaced, [Next]_vars
             PROVE  Good'
  OBVIOUS
<1>1. CASE UNCHANGED vars
  <2>1. \A t : Measuring(t)' <=> Measuring(t)
    BY <1>1, Zenon DEF Measuring, Stage, vars
  <2> QED BY <1>1, <2>1, MetricFrame, Zenon DEF vars
<1>2. CASE Save BY <1>2, SaveMetrics
<1>3. CASE FlushStore
  <2>1. \A t : Measuring(t)' <=> Measuring(t) BY <1>3, MeasuringKept, Zenon
  <2> QED BY <1>3, <2>1, MetricFrame, Zenon DEF FlushStore, task
<1>4. CASE RefuseBatch
  BY <1>4, RaiseMetrics, Zenon DEF RefuseBatch, book
<1>5. CASE Fill
  <2>1. call.pc = "ledger" /\ UNCHANGED <<memory, last, now, run, runs>>
    BY <1>5, Zenon DEF Fill, task
  <2> DEFINE then == IF Action[call.event] = "open" THEN "free" ELSE "report"
             c == [call EXCEPT !.then = then]
  <2>2. call' = Continue(c) BY <1>5, Zenon DEF Fill, Proceed
  <2>3. then \in {"free", "report"} BY Zenon
  <2>4. c \in Call /\ c.then = then
    <3> HIDE DEF then
    <3> QED BY <2>3, CallTyped, SMT DEF Call
  <2>5. call'.pc # "mark" /\ call'.then # "mark"
    <3> HIDE DEF then, c
    <3> QED BY <2>2, <2>3, <2>4, ContinueIs, SMT DEF Free
  <2> QED BY <2>1, <2>5, OtherCallMetrics, SMT
<1>6. CASE Report
  <2>1. call.pc = "report" /\ UNCHANGED <<memory, last, now, run, runs>>
    BY <1>6, Zenon DEF Report, task, book
  <2>2. call'.pc # "mark" /\ call'.then # "mark"
    BY <1>6, SavingIs, SMT DEF Report
  <2> QED BY <2>1, <2>2, OtherCallMetrics, SMT
<1>7. CASE Mark BY <1>7, MarkMetrics
<1>8. CASE RefuseMetric
  BY <1>8, RaiseMetrics, Zenon DEF RefuseMetric, book
<1>9. CASE FinalFlush
  <2>1. call.pc = "final" /\ UNCHANGED <<memory, last, now, run, runs>>
    BY <1>9, Zenon DEF FinalFlush, task, book
  <2>2. call'.pc = "flush" /\ call'.then = "cleanup"
    BY <1>9, CallTyped, SMT DEF FinalFlush, Call
  <2> QED BY <2>1, <2>2, OtherCallMetrics, SMT
<1>10. CASE CleanUp
  <2>1. call.pc = "cleanup" /\ call.by \in Task
    BY <1>10, Zenon DEF CleanUp, CallInv, Stage
  <2>2. \A t : ~Measuring(t) BY <2>1, MeasuringOnly, SMT
  <2>3. \A t : ~Measuring(t)' BY <1>10, FreeMeasures, Zenon DEF CleanUp
  <2>4. \A t \in Task : run'[t] = "running" =>
          t # call.by /\ run[t] = "running"
    BY <1>10, <2>1, SMT DEF CleanUp, TypeOK
  <2>5. \A t \in Task : t # call.by => last'[t] = last[t]
    BY <1>10, <2>1, SMT DEF CleanUp, TypeOK
  <2>6. UNCHANGED <<memory, now, runs>> BY <1>10, Zenon DEF CleanUp
  <2> QED BY <2>2, <2>3, <2>4, <2>5, <2>6, MetricFrame, Zenon
<1>11. CASE Flush
  <2>1. call.pc = "free" /\ UNCHANGED <<memory, last, now, run, runs>>
    BY <1>11, Zenon DEF Flush, task, book
  <2>2. call'.pc = "flush" /\ call'.then = "free"
    BY <1>11, SMT DEF Flush, Free
  <2> QED BY <2>1, <2>2, OtherCallMetrics, SMT
<1>12. ASSUME NEW e \in Event, Handle(e) PROVE Good'
  <2>1. call.pc = "free" /\ UNCHANGED <<memory, last, now, run, runs>>
    BY <1>12, Zenon DEF Handle, task, book
  <2>2. call'.pc # "mark" /\ call'.then # "mark"
    BY <1>12, SavingIs, SMT DEF Handle
  <2> QED BY <2>1, <2>2, OtherCallMetrics, SMT
<1>13. ASSUME NEW t \in Task, OnTick(t) PROVE Good'
  BY <1>13, OnTickMetrics
<1>14. ASSUME NEW t \in Task, Finish(t) PROVE Good'
  <2>1. call.pc = "free" /\ UNCHANGED <<memory, last, now, runs>>
    BY <1>14, Zenon DEF Finish, book
  <2>2. call'.pc # "mark" /\ call'.then # "mark"
    <3>1. call' = Saving(t, FinalRecs(t), "final", None)
      BY <1>14, Zenon DEF Finish
    <3> QED BY <3>1, SavingIs, SMT
  <2>3. \A u : ~Measuring(u) BY <2>1, MeasuringOnly, SMT
  <2>4. \A u : ~Measuring(u)' BY <2>2, SMT DEF Measuring, Stage
  <2>5. \A u \in Task : run'[u] = "running" => run[u] = "running"
    BY <1>14, SMT DEF Finish, TypeOK
  <2> QED BY <2>1, <2>3, <2>4, <2>5, MetricFrame, Zenon
<1>15. ASSUME NEW t \in Task, Start(t) PROVE Good' BY <1>15, StartMetrics
<1>16. ASSUME NEW t \in Task, Leave(t) PROVE Good'
  <2>1. UNCHANGED <<memory, call, last, now, runs>>
    BY <1>16, Zenon DEF Leave, book
  <2>2. \A u : Measuring(u)' <=> Measuring(u)
    BY <2>1, Zenon DEF Measuring, Stage
  <2>3. \A u \in Task : run'[u] = "running" => run[u] = "running"
    BY <1>16, SMT DEF Leave, TypeOK
  <2> QED BY <2>1, <2>2, <2>3, MetricFrame, Zenon
<1> QED BY <1>1, <1>2, <1>3, <1>4, <1>5, <1>6, <1>7, <1>8, <1>9, <1>10, <1>11,
           <1>12, <1>13, <1>14, <1>15, <1>16, Zenon DEF Next, CallStep

-----------------------------------------------------------------------------
\* The theorems.

LEMMA InitInv == Init => IInv
<1> SUFFICES ASSUME Init PROVE IInv OBVIOUS
<1>1. TypeOK
  <2>1. memory \in Shown /\ view \in [Store -> Shown]
    BY SMT DEF Init, Shown
  <2>2. buffer \in [Store -> Seq(Rec)] /\ call \in Call
    BY FreeType, SMT DEF Init
  <2> QED BY <2>1, <2>2, ConstantsAssumption, SMT DEF Init, TypeOK, Time, Phase
<1>2. StoresFollow
  <2>1. \A s \in Store, k \in Key : view[s][k] = memory[k] /\ buffer[s] = <<>>
    BY SMT DEF Init
  <2>2. \A k : {i \in 1..Len(<<>>) : <<>>[i].key = k} = {} BY SMT
  <2> QED BY <2>1, <2>2, SMT DEF StoresFollow, Follows
<1>3. CallInv BY SMT DEF Init, CallInv, Stage, Free
<1>4. BacklogInv BY ConstantsAssumption, SMT DEF Init, BacklogInv, Free
<1>5. \A t \in Task, n \in 0..MaxRuns, x \in Time : ~Measured(t, n, x)
  <2> TAKE t \in Task, n \in 0..MaxRuns, x \in Time
  <2>1. <<"metric", <<t, n, x>>>> \in Key BY SMT DEF Key, Metric
  <2> QED BY <2>1, Zenon DEF Init, Measured
<1>6. MetricInv BY <1>5, Zenon DEF MetricInv
<1>7. MetricsSpaced BY <1>5, Zenon DEF MetricsSpaced, Measured
<1> QED BY <1>1, <1>2, <1>3, <1>4, <1>6, <1>7 DEF IInv, Support

LEMMA NextInv == IInv /\ [Next]_vars => IInv'
BY TypeStep, FollowsStep, CallStepInv, BacklogStep, MetricStep, Zenon
   DEF IInv, Support

\* The invariant of the recorder.
THEOREM Invariance == Spec => []IInv
<1>1. Init => IInv BY InitInv
<1>2. IInv /\ [Next]_vars => IInv' BY NextInv
<1> QED BY <1>1, <1>2, PTL DEF Spec

\* What makes the properties inductive holds: the flush has emptied the stores
\* before the one it is at, and the metrics of a run precede its clock.
THEOREM SupportHolds == Spec => []Support
<1>1. IInv => Support BY Zenon DEF IInv
<1> QED BY <1>1, Invariance, PTL

\* Type correctness of the recorder.
THEOREM TypesHold == Spec => []TypeOK
<1>1. IInv => TypeOK BY Zenon DEF IInv
<1> QED BY <1>1, Invariance, PTL

\* A store and its buffer together say what memory says, whatever batches were
\* refused and wherever a CSV store stopped.
THEOREM StoresFollowHolds == Spec => []StoresFollow
<1>1. IInv => StoresFollow BY Zenon DEF IInv
<1> QED BY <1>1, Invariance, PTL

\* What a refused batch left waiting stays counted for the next flush.
THEOREM BacklogCountedHolds == Spec => []BacklogCounted
<1>1. IInv => BacklogCounted
  BY SMT DEF IInv, Support, BacklogInv, BacklogCounted
<1> QED BY <1>1, Invariance, PTL

\* Two metrics of a run are at least an interval apart.
THEOREM MetricsSpacedHolds == Spec => []MetricsSpaced
<1>1. IInv => MetricsSpaced BY Zenon DEF IInv
<1> QED BY <1>1, Invariance, PTL

-----------------------------------------------------------------------------
\* The end of a task: whose call it is.

\* Nobody is finishing when the lock is free, or held by another call.
LEMMA FreeOwner ==
  ASSUME call' = Free, \A t \in Task : run'[t] # "finishing"
  PROVE  OwnerInv'
<1>1. /\ call'.by = None /\ call'.event = None /\ call'.todo = {}
      /\ call'.pc = "free" /\ call'.then = "free"
  BY SMT DEF Free
<1>2. ~Ending' BY <1>1, SMT DEF Ending, Stage
<1>3. \A t \in Task : t # None BY ConstantsAssumption, SMT
<1> QED BY <1>1, <1>2, <1>3, SMT DEF OwnerInv

LEMMA NobodyEnding ==
  ASSUME OwnerInv, ~Ending PROVE \A t \in Task : run[t] # "finishing"
BY Zenon DEF OwnerInv

\* The same call, further on.
LEMMA GoOnOwner ==
  ASSUME TypeOK, OwnerInv, UNCHANGED <<ledger, run>>, call.pc \in {"save", "flush"},
         call'.by = call.by, call'.event = call.event,
         call'.todo \subseteq call.todo, call'.then = call.then,
         call'.pc \in {"save", "flush", call.then} \ {"free"}
  PROVE  OwnerInv' /\ (Ending' <=> Ending)
<1>1. Ending' <=> Ending BY SMT DEF Ending, Stage
<1>2. "ledger" \in Stage' <=> "ledger" \in Stage BY SMT DEF Stage
<1>3. \A r \in call'.todo, t \in Task : OfTask(r.key, t)' => call'.by = t
  <2>1. \A r, t : OfTask(r.key, t)' <=> OfTask(r.key, t) BY Zenon DEF OfTask
  <2> QED BY <2>1, Zenon DEF OwnerInv
<1> QED BY <1>1, <1>2, <1>3, Zenon DEF OwnerInv

\* A call that saves and flushes goes on, or returns with nothing more to do.
LEMMA OnwardIs ==
  ASSUME TypeOK, Save \/ FlushStore
  PROVE  /\ UNCHANGED <<ledger, last, now, run, runs>>
         /\ call.pc \in {"save", "flush"}
         /\ \/ call' = Free /\ call.then = "free"
               /\ kept' = (IF call.event # None THEN kept \cup {call.event} ELSE kept)
            \/ /\ call'.by = call.by /\ call'.event = call.event
               /\ call'.todo \subseteq call.todo /\ call'.then = call.then
               /\ call'.pc \in {"save", "flush", call.then} \ {"free"}
               /\ call'.pc \notin {"save", "flush"} => call'.todo = {}
               /\ kept' = kept
<1>1. UNCHANGED <<ledger, last, now, run, runs>> /\ call.pc \in {"save", "flush"}
  <2>1. CASE Save BY <2>1, Zenon DEF Save, task
  <2>2. CASE FlushStore BY <2>2, Zenon DEF FlushStore, task
  <2> QED BY <2>1, <2>2
<1>c. call \in Call BY CallTyped
<1> DEFINE Goal ==
       \/ call' = Free /\ call.then = "free"
          /\ kept' = (IF call.event # None THEN kept \cup {call.event} ELSE kept)
       \/ /\ call'.by = call.by /\ call'.event = call.event
          /\ call'.todo \subseteq call.todo /\ call'.then = call.then
          /\ call'.pc \in {"save", "flush", call.then} \ {"free"}
          /\ call'.pc \notin {"save", "flush"} => call'.todo = {}
          /\ kept' = kept
<1> SUFFICES Goal BY <1>1
<1>2. ASSUME NEW c \in Call, c.by = call.by, c.event = call.event,
             c.todo \subseteq call.todo, c.then = call.then, Proceed(c)
      PROVE  Goal
  <2>1. call' = Continue(c) BY <1>2, Zenon DEF Proceed
  <2>2. kept' = IF call' = Free /\ c.event # None THEN kept \cup {c.event} ELSE kept
    BY <1>2, <2>1, Zenon DEF Proceed
  <2>3. CASE call' = Free
    <3>1. c.then = "free"
      <4>1. Free.pc = "free" BY Zenon DEF Free
      <4> QED BY <2>1, <2>3, <4>1, ContinueIs, Zenon
    <3> QED BY <1>2, <2>2, <2>3, <3>1, Zenon
  <2>4. CASE call' # Free
    BY <1>2, <2>1, <2>2, <2>4, ContinueIs, SMT
  <2> QED BY <2>3, <2>4
<1>3. CASE Save
  <2>1. PICK r \in call.todo :
          LET c == [call EXCEPT !.todo = @ \ {r}]
          IN IF count + 1 >= FlushEvery
             THEN /\ call' = [c EXCEPT !.pc = "flush", !.at = 1]
                  /\ UNCHANGED kept
             ELSE Proceed(c)
    BY <1>3, Zenon DEF Save
  <2> DEFINE c == [call EXCEPT !.todo = @ \ {r}]
  <2>2. c \in Call /\ c.by = call.by /\ c.event = call.event
        /\ c.todo \subseteq call.todo /\ c.then = call.then
    BY <1>c, SMT DEF Call
  <2>3. CASE count + 1 >= FlushEvery
    <3>1. call' = [c EXCEPT !.pc = "flush", !.at = 1] /\ kept' = kept
      BY <2>1, <2>3
    <3> HIDE DEF c
    <3> QED BY <2>2, <3>1, SMT DEF Call
  <2>4. CASE ~(count + 1 >= FlushEvery)
    <3>1. Proceed(c) BY <2>1, <2>4
    <3> HIDE DEF c
    <3> QED BY <2>2, <3>1, <1>2
  <2> QED BY <2>3, <2>4
<1>4. CASE FlushStore
  <2>1. CASE call.at < Len(Stores)
    <3>1. call' = [call EXCEPT !.at = @ + 1] /\ kept' = kept
      BY <1>4, <2>1, Zenon DEF FlushStore, Flushed
    <3>2. call.pc = "flush" BY <1>4, Zenon DEF FlushStore
    <3> QED BY <1>c, <3>1, <3>2, SMT DEF Call
  <2>2. CASE ~(call.at < Len(Stores))
    <3>1. Proceed(call) BY <1>4, <2>2, Zenon DEF FlushStore, Flushed
    <3> QED BY <1>c, <3>1, <1>2
  <2> QED BY <2>1, <2>2
<1> QED BY <1>3, <1>4

LEMMA OnwardOwner ==
  ASSUME TypeOK, OwnerInv, Save \/ FlushStore
  PROVE  OwnerInv'
<1>1. CASE call' = Free /\ call.then = "free"
  <2>1. ~Ending BY <1>1, OnwardIs, SMT DEF Ending, Stage
  <2>2. \A t \in Task : run'[t] # "finishing" BY <2>1, NobodyEnding, OnwardIs
  <2> QED BY <1>1, <2>2, FreeOwner
<1>2. CASE ~(call' = Free /\ call.then = "free")
  BY <1>2, OnwardIs, GoOnOwner
<1> QED BY <1>1, <1>2

\* An exception ends the run that was ending.
LEMMA RaiseOwner ==
  ASSUME TypeOK, OwnerInv, Raise
  PROVE  OwnerInv'
<1>1. call' = Free BY Zenon DEF Raise
<1>2. ASSUME NEW t \in Task, run'[t] = "finishing" PROVE FALSE
  <2>1. run \in [Task -> Phase] BY Zenon DEF TypeOK
  <2>2. CASE call.by = None
    <3>1. run[t] = "finishing" BY <1>2, <2>2, Zenon DEF Raise
    <3>2. call.by = t BY <3>1, Zenon DEF OwnerInv
    <3> QED BY <2>2, <3>2, ConstantsAssumption, SMT
  <2>3. CASE call.by # None
    <3>1. run' = [run EXCEPT ![call.by] =
                    IF @ = "running" THEN "failing" ELSE "dead"]
      BY <2>3, Zenon DEF Raise
    <3>2. CASE t = call.by
      <4>1. run'[t] \in {"failing", "dead"} BY <2>1, <3>1, <3>2, SMT
      <4> QED BY <1>2, <4>1
    <3>3. CASE t # call.by
      <4>1. run'[t] = run[t] BY <2>1, <3>1, <3>3, SMT
      <4> QED BY <1>2, <3>3, <4>1, Zenon DEF OwnerInv
    <3> QED BY <3>2, <3>3
  <2> QED BY <2>2, <2>3
<1> QED BY <1>1, <1>2, FreeOwner

\* A call that starts or goes on to save what is its task's.
LEMMA SavingOwner ==
  ASSUME NEW by, NEW todo, NEW then, NEW event,
         call' = Saving(by, todo, then, event),
         \A t \in Task : run'[t] = "finishing" <=> then = "final" /\ by = t,
         by # None => run'[by] \in {"running", "failing", "finishing"},
         \A r \in todo, t \in Task : OfTask(r.key, t) => by = t,
         then # "cleanup",
         event # None =>
           /\ by = TaskOf[TradeOf[event]] /\ run'[by] = "running"
           /\ then = "ledger" \/ ledger'[TradeOf[event]] # None
  PROVE  OwnerInv'
<1>1. call'.pc = "save" /\ call'.by = by /\ call'.todo = todo
      /\ call'.then = then /\ call'.event = event
  BY Zenon DEF Saving
<1>2. Stage' = {"save", then} BY <1>1, Zenon DEF Stage
<1>3. Ending' <=> then = "final"
  <2>1. "save" # "final" /\ "save" # "cleanup" BY SMT
  <2>2. {"save", then} \cap {"final", "cleanup"} # {} <=> then = "final"
    BY <2>1, Zenon
  <2> QED BY <1>2, <2>2, Zenon DEF Ending
<1>4. \A r \in todo, t \in Task : OfTask(r.key, t)' => by = t
  BY Zenon DEF OfTask
<1> QED BY <1>1, <1>2, <1>3, <1>4, SMT DEF OwnerInv

\* An event and a metric are no task's summary.
LEMMA NotOfTask ==
  ASSUME NEW x, NEW kind \in {"event", "metric"}
  PROVE  \A t \in Task : ~OfTask(<<kind, x>>, t)
<1>1. \A t : <<kind, x>> # <<"task", t>> BY SMT
<1>2. <<kind, x>>[1] \notin {"trade", "cycle"} BY SMT
<1> QED BY <1>1, <1>2, SMT DEF OfTask

LEMMA FreeNotEnding == call.pc = "free" /\ CallInv => call = Free /\ ~Ending
<1>1. call.pc = "free" /\ CallInv => call = Free BY Zenon DEF CallInv
<1>2. call = Free => ~Ending BY SMT DEF Ending, Stage, Free
<1> QED BY <1>1, <1>2

LEMMA HandleOwner ==
  ASSUME TypeOK, CallInv, OwnerInv, NEW e \in Event, Handle(e)
  PROVE  OwnerInv'
<1> DEFINE k == <<"event", e>>
<1>1. PICK by \in {TaskOf[TradeOf[e]], None}, filled \in BOOLEAN :
        /\ \/ by = None /\ ~filled
           \/ by # None /\ run[by] = "running"
           \/ by # None /\ run[by] = "failing" /\ ~filled
        /\ call' = Saving(by, {[key |-> k, val |-> Seen]},
                          IF filled THEN "ledger" ELSE "free",
                          IF filled THEN e ELSE None)
  BY Zenon DEF Handle
<1>2. run' = run /\ ledger' = ledger /\ call.pc = "free"
  BY Zenon DEF Handle, book, task
<1>3. \A t \in Task : run'[t] # "finishing"
  BY <1>2, FreeNotEnding, NobodyEnding
<1> DEFINE r == [key |-> k, val |-> Seen]
<1>4. r.key = k OBVIOUS
<1>5. \A t \in Task : ~OfTask(r.key, t) BY <1>4, NotOfTask
<1>6. e # None BY ConstantsAssumption, SMT
<1> HIDE DEF r
<1>7. CASE filled
  <2>1. call' = Saving(by, {r}, "ledger", e) BY <1>1, <1>7 DEF r
  <2>2. by = TaskOf[TradeOf[e]] /\ run'[by] = "running" BY <1>1, <1>2, <1>7
  <2> QED BY <1>3, <1>5, <2>1, <2>2, SavingOwner, SMT
<1>8. CASE ~filled
  <2>1. call' = Saving(by, {r}, "free", None) BY <1>1, <1>8 DEF r
  <2>2. by # None => run'[by] \in {"running", "failing"} BY <1>1, <1>2, <1>8
  <2> QED BY <1>3, <1>5, <2>1, <2>2, SavingOwner, SMT
<1> QED BY <1>7, <1>8

\* A fill reaches the ledger, and nothing else there changes.
LEMMA FillEffect ==
  ASSUME TypeOK, CallInv, Fill
  PROVE  /\ call.event \in Event /\ TradeOf[call.event] \in Trade
         /\ ledger'[TradeOf[call.event]] # None
         /\ \A u \in Trade : ledger[u] # None => ledger'[u] # None
         /\ UNCHANGED <<memory, view, buffer, run>>
         /\ \/ call' = Free
            \/ /\ call'.by = call.by /\ call'.event = call.event
               /\ call'.todo = {} /\ call'.pc = "report" /\ call'.then = "report"
         /\ kept' \in {kept, kept \cup {call.event}}
<1> DEFINE e == call.event
           tr == TradeOf[e]
           then == IF Action[e] = "open" THEN "free" ELSE "report"
           c == [call EXCEPT !.then = then]
           new == IF Action[e] = "open" THEN [opened |-> e, closed |-> None]
                  ELSE [opened |-> IF ledger[tr] = None THEN None
                                   ELSE ledger[tr].opened, closed |-> e]
<1>1. call \in Call /\ call.todo = {} /\ call.pc = "ledger"
  BY CallTyped, SMT DEF Fill, CallInv
<1>2. e \in Event /\ tr \in Trade
  <2>1. e \in Event BY <1>1, Zenon DEF CallInv, Stage
  <2> QED BY <2>1, ConstantsAssumption, Zenon
<1>3. ledger' = [ledger EXCEPT ![tr] = new] BY Zenon DEF Fill
<1>4. new \in TradeSummary
  <2>1. ledger[tr] # None => ledger[tr].opened \in Event \cup {None}
    BY <1>2, SMT DEF TypeOK, TradeSummary
  <2> HIDE DEF tr, e
  <2> QED BY <1>2, <2>1, SMT DEF TradeSummary
<1>5. new # None BY <1>4, ConstantsAssumption, Zenon DEF Value
<1>6. /\ ledger'[tr] # None
      /\ \A u \in Trade : ledger[u] # None => ledger'[u] # None
  <2> HIDE DEF new, tr
  <2> QED BY <1>2, <1>3, <1>5, Zenon DEF TypeOK
<1>7. UNCHANGED <<memory, view, buffer, run>> BY Zenon DEF Fill, disk, task
<1>8. call' = Continue(c) /\ kept' \in {kept, kept \cup {c.event}}
  BY Zenon DEF Fill, Proceed
<1>9. c \in Call /\ c.todo = {} /\ c.by = call.by /\ c.event = e /\ c.then = then
  BY <1>1, SMT DEF Call
<1>10. c.then = "free" \/ c.then = "report" BY <1>9
<1> HIDE DEF c, then
<1>11. \/ call' = Free
       \/ /\ call'.by = call.by /\ call'.event = e
          /\ call'.todo = {} /\ call'.pc = "report" /\ call'.then = "report"
  <2>1. CASE c.then = "free" BY <1>8, <1>9, <2>1, Zenon DEF Continue
  <2>2. CASE c.then = "report"
    <3>1. call' = [c EXCEPT !.pc = "report"]
      BY <1>8, <1>9, <2>2, SMT DEF Continue
    <3> QED BY <1>9, <2>2, <3>1, SMT DEF Call
  <2> QED BY <1>10, <2>1, <2>2
<1> QED BY <1>2, <1>6, <1>7, <1>8, <1>9, <1>11

\* A call at one of the recorder's own steps is at nothing else.
LEMMA StageIs ==
  ASSUME CallInv, call.pc \notin {"save", "flush"}
  PROVE  call.todo = {} /\ Stage = {call.pc}
BY Zenon DEF CallInv, Stage

LEMMA FillOwner ==
  ASSUME TypeOK, CallInv, OwnerInv, Fill
  PROVE  OwnerInv'
<1>1. call.pc = "ledger" BY Zenon DEF Fill
<1>2. ~Ending BY <1>1, StageIs, SMT DEF Ending
<1>3. \A t \in Task : run'[t] # "finishing"
  BY <1>2, FillEffect, NobodyEnding
<1>4. CASE call' = Free BY <1>3, <1>4, FreeOwner
<1>5. CASE call' # Free
  <2>1. /\ call'.by = call.by /\ call'.event = call.event /\ run' = run
        /\ call'.todo = {} /\ call'.pc = "report" /\ call'.then = "report"
        /\ ledger'[TradeOf[call.event]] # None
    BY <1>5, FillEffect
  <2>2. ~Ending' BY <2>1, SMT DEF Ending, Stage
  <2> QED BY <1>3, <2>1, <2>2, SMT DEF OwnerInv
<1> QED BY <1>4, <1>5

LEMMA ReportOwner ==
  ASSUME TypeOK, CallInv, OwnerInv, Report
  PROVE  OwnerInv'
<1> DEFINE e == call.event
           tr == TradeOf[e]
           cycle == IF CycleOf[tr] = None THEN {}
                    ELSE {CycleRec(CycleOf[tr], TaskOf[tr])}
           todo == {TradeRec(tr)} \cup cycle
<1>1. /\ call' = Saving(call.by, todo, "free", e) /\ call.pc = "report"
      /\ UNCHANGED <<run, ledger>>
  BY Zenon DEF Report, book, task
<1>2. Stage = {"report"} /\ ~Ending BY <1>1, StageIs, SMT DEF Ending
<1>3. \A t \in Task : run'[t] # "finishing" BY <1>1, <1>2, NobodyEnding
<1>4. e \in Event /\ ledger[tr] # None BY <1>2, SMT DEF CallInv
<1>5. e # None /\ tr \in Trade BY <1>4, ConstantsAssumption, SMT
<1>6. call.by = TaskOf[tr] /\ run[call.by] = "running"
  BY <1>4, <1>5, Zenon DEF OwnerInv
<1>7. ASSUME NEW r \in todo, NEW t \in Task, OfTask(r.key, t)
      PROVE  call.by = t
  <2>1. CASE r = TradeRec(tr)
    <3>1. r.key = <<"trade", tr>> BY <2>1, Zenon DEF TradeRec
    <3>2. r.key[1] = "trade" /\ r.key[2] = tr BY <3>1, SMT
    <3>3. r.key # <<"task", t>> BY <3>1, SMT
    <3> QED BY <1>6, <1>7, <3>2, <3>3, SMT DEF OfTask
  <2>2. CASE r # TradeRec(tr)
    <3> DEFINE c == CycleOf[tr]
    <3>1. c # None /\ r = CycleRec(c, TaskOf[tr]) BY <2>2, Zenon
    <3>2. r.key = <<"cycle", c>> BY <3>1, Zenon DEF CycleRec
    <3>3. r.key[1] = "cycle" /\ r.key[2] = c BY <3>2, SMT
    <3>4. r.key # <<"task", t>> BY <3>2, SMT
    <3>5. PICK u \in Trade : CycleOf[u] = c /\ TaskOf[u] = t
      BY <1>7, <3>3, <3>4, SMT DEF OfTask
    <3>6. TaskOf[u] = TaskOf[tr]
      BY <1>5, <3>1, <3>5, ConstantsAssumption, Zenon
    <3> QED BY <1>6, <3>5, <3>6
  <2> QED BY <2>1, <2>2
<1> HIDE DEF todo
<1> QED BY <1>1, <1>3, <1>4, <1>6, <1>7, SavingOwner, SMT

LEMMA OnTickOwner ==
  ASSUME TypeOK, CallInv, OwnerInv, NEW t \in Task, OnTick(t)
  PROVE  OwnerInv'
<1>1. PICK time \in now[t]..MaxTime :
        call' = IF Due(t, time)
                THEN Saving(t, {[key |-> <<"metric", <<t, runs[t], time>>>>,
                                 val |-> Total(InLedger(t))]}, "mark", None)
                ELSE call
  BY Zenon DEF OnTick
<1>2. run' = run /\ ledger' = ledger /\ call.pc = "free" /\ run[t] = "running"
  BY Zenon DEF OnTick, book
<1>3. call = Free /\ \A u \in Task : run'[u] # "finishing"
  BY <1>2, FreeNotEnding, NobodyEnding
<1>4. CASE ~Due(t, time) BY <1>1, <1>3, <1>4, FreeOwner
<1>5. CASE Due(t, time)
  <2> DEFINE k == <<"metric", <<t, runs[t], time>>>>
             r == [key |-> k, val |-> Total(InLedger(t))]
  <2>1. call' = Saving(t, {r}, "mark", None) BY <1>1, <1>5
  <2>2. r.key = k OBVIOUS
  <2>3. \A u \in Task : ~OfTask(r.key, u) BY <2>2, NotOfTask
  <2> HIDE DEF r
  <2> QED BY <1>2, <1>3, <2>1, <2>3, SavingOwner, SMT
<1> QED BY <1>4, <1>5

\* What on_task_finished writes, by kind.
LEMMA FinalRecsAre ==
  ASSUME NEW t \in Task, NEW r \in FinalRecs(t)
  PROVE  \/ \E tr \in Known(t) : r = TradeRec(tr) /\ r.key = <<"trade", tr>>
         \/ \E c \in LedgerCycles(t) : r = CycleRec(c, t) /\ r.key = <<"cycle", c>>
         \/ \E c \in MemoryCycles(t) \ LedgerCycles(t) :
              /\ r = [key |-> <<"cycle", c>>, val |-> memory[<<"cycle", c>>]]
              /\ r.key = <<"cycle", c>>
         \/ r = [key |-> <<"task", t>>, val |-> Total(Known(t))]
            /\ r.key = <<"task", t>>
<1>1. \A tr : TradeRec(tr).key = <<"trade", tr>> BY Zenon DEF TradeRec
<1>2. \A c : CycleRec(c, t).key = <<"cycle", c>> BY Zenon DEF CycleRec
<1>3. \A k, v : [key |-> k, val |-> v].key = k OBVIOUS
<1>4. \/ \E tr \in Known(t) : r = TradeRec(tr)
      \/ \E c \in LedgerCycles(t) : r = CycleRec(c, t)
      \/ \E c \in MemoryCycles(t) \ LedgerCycles(t) :
           r = [key |-> <<"cycle", c>>, val |-> memory[<<"cycle", c>>]]
      \/ r = [key |-> <<"task", t>>, val |-> Total(Known(t))]
  BY Zenon DEF FinalRecs
<1>5. CASE \E tr \in Known(t) : r = TradeRec(tr) BY <1>1, <1>5, Zenon
<1>6. CASE \E c \in LedgerCycles(t) : r = CycleRec(c, t) BY <1>2, <1>6, Zenon
<1>7. CASE \E c \in MemoryCycles(t) \ LedgerCycles(t) :
             r = [key |-> <<"cycle", c>>, val |-> memory[<<"cycle", c>>]]
  BY <1>3, <1>7, Zenon
<1>8. CASE r = [key |-> <<"task", t>>, val |-> Total(Known(t))]
  BY <1>3, <1>8, Zenon
<1> QED BY <1>4, <1>5, <1>6, <1>7, <1>8

\* All of it is of the task, and of no other.
LEMMA FinalRecsOf ==
  ASSUME NEW t \in Task, NEW r \in FinalRecs(t)
  PROVE  \A u \in Task : OfTask(r.key, u) <=> u = t
<1> TAKE u \in Task
<1>1. CASE \E tr \in Known(t) : r.key = <<"trade", tr>>
  <2>1. PICK tr \in Trade : r.key = <<"trade", tr>> /\ TaskOf[tr] = t
    BY <1>1, Zenon DEF Known
  <2>2. r.key[1] = "trade" /\ r.key[2] = tr /\ r.key # <<"task", u>>
    BY <2>1, SMT
  <2> QED BY <2>1, <2>2, SMT DEF OfTask
<1>2. CASE \E c \in LedgerCycles(t) \cup MemoryCycles(t) : r.key = <<"cycle", c>>
  <2>1. PICK c : /\ c \in LedgerCycles(t) \cup MemoryCycles(t)
                 /\ r.key = <<"cycle", c>>
    BY <1>2
  <2>2. c # None /\ \E tr \in Trade : CycleOf[tr] = c /\ TaskOf[tr] = t
    BY <2>1, ConstantsAssumption, SMT DEF LedgerCycles, MemoryCycles, InLedger
  <2>3. r.key[1] = "cycle" /\ r.key[2] = c /\ r.key # <<"task", u>>
    BY <2>1, SMT
  <2>4. OfTask(r.key, u) <=> \E tr \in Trade : CycleOf[tr] = c /\ TaskOf[tr] = u
    BY <2>3, SMT DEF OfTask
  <2>5. \A x, y \in Trade : CycleOf[x] = c /\ CycleOf[y] = c => TaskOf[x] = TaskOf[y]
    BY <2>2, ConstantsAssumption, Zenon
  <2> QED BY <2>2, <2>4, <2>5, Zenon
<1>3. CASE r.key = <<"task", t>>
  <2>1. r.key[1] = "task" /\ r.key[2] = t BY <1>3, SMT
  <2>2. <<"task", u>>[2] = u BY SMT
  <2>3. OfTask(r.key, u) <=> r.key = <<"task", u>> BY <2>1, SMT DEF OfTask
  <2>4. r.key = <<"task", u>> => u = t BY <2>1, <2>2, Zenon
  <2> QED BY <1>3, <2>3, <2>4
<1> QED BY <1>1, <1>2, <1>3, FinalRecsAre, Zenon

LEMMA FinishOwner ==
  ASSUME TypeOK, CallInv, OwnerInv, NEW t \in Task, Finish(t)
  PROVE  OwnerInv'
<1>1. /\ call' = Saving(t, FinalRecs(t), "final", None) /\ call.pc = "free"
      /\ run' = [run EXCEPT ![t] = "finishing"]
  BY Zenon DEF Finish
<1>2. \A u \in Task : run[u] # "finishing" BY <1>1, FreeNotEnding, NobodyEnding
<1>3. run \in [Task -> Phase] BY Zenon DEF TypeOK
<1>4. \A u \in Task : run'[u] = "finishing" <=> u = t BY <1>1, <1>2, <1>3, SMT
<1>5. \A r \in FinalRecs(t), u \in Task : OfTask(r.key, u) => t = u
  BY FinalRecsOf
<1> QED BY <1>1, <1>4, <1>5, SavingOwner, SMT

\* A step in which the call stays whose it is.
LEMMA SameOwner ==
  ASSUME TypeOK, OwnerInv, UNCHANGED ledger,
         call'.by = call.by, call'.event = call.event, call'.todo = call.todo,
         Ending' <=> Ending, "ledger" \in Stage' <=> "ledger" \in Stage,
         \A t \in Task : run'[t] = "finishing" <=> run[t] = "finishing",
         call.by # None => run'[call.by] = run[call.by]
  PROVE  OwnerInv'
<1>1. \A r \in call'.todo, t \in Task : OfTask(r.key, t)' => call'.by = t
  <2>1. \A r, t : OfTask(r.key, t)' <=> OfTask(r.key, t) BY Zenon DEF OfTask
  <2> QED BY <2>1, Zenon DEF OwnerInv
<1>2. \A t \in Task : run'[t] = "finishing" <=> Ending' /\ call'.by = t
  BY Zenon DEF OwnerInv
<1>3. call'.by # None => run'[call'.by] \in {"running", "failing", "finishing"}
  BY Zenon DEF OwnerInv
<1>4. call'.event # None =>
        /\ call'.by = TaskOf[TradeOf[call'.event]] /\ run'[call'.by] = "running"
        /\ "ledger" \in Stage' \/ ledger'[TradeOf[call'.event]] # None
  <2> SUFFICES ASSUME call.event # None
      PROVE /\ call.by = TaskOf[TradeOf[call.event]] /\ run'[call.by] = "running"
            /\ "ledger" \in Stage' \/ ledger[TradeOf[call.event]] # None
    OBVIOUS
  <2>1. /\ call.by = TaskOf[TradeOf[call.event]] /\ run[call.by] = "running"
        /\ "ledger" \in Stage \/ ledger[TradeOf[call.event]] # None
    BY Zenon DEF OwnerInv
  <2>2. call.event \in Event BY CallTyped, SMT DEF Call
  <2>3. TradeOf[call.event] \in Trade BY <2>2, ConstantsAssumption, SMT
  <2>4. call.by \in Task BY <2>1, <2>3, ConstantsAssumption, SMT
  <2>5. call.by # None BY <2>4, ConstantsAssumption, SMT
  <2> QED BY <2>1, <2>5
<1> QED BY <1>1, <1>2, <1>3, <1>4, Zenon DEF OwnerInv

LEMMA FinalFlushOwner ==
  ASSUME TypeOK, CallInv, OwnerInv, FinalFlush
  PROVE  OwnerInv'
<1>1. /\ call \in Call /\ call.pc = "final" /\ UNCHANGED <<ledger, run>>
      /\ call' = [call EXCEPT !.pc = "flush", !.at = 1, !.then = "cleanup"]
  BY CallTyped, Zenon DEF FinalFlush, book, task
<1>2. Stage = {"final"} BY <1>1, StageIs, SMT
<1>3. /\ call'.by = call.by /\ call'.event = call.event
      /\ call'.todo = call.todo /\ call'.pc = "flush" /\ call'.then = "cleanup"
  BY <1>1, SMT DEF Call
<1>4. Ending /\ Ending' /\ "ledger" \notin Stage /\ "ledger" \notin Stage'
  <2>1. Stage' = {"flush", "cleanup"} BY <1>3, Zenon DEF Stage
  <2> QED BY <1>2, <2>1, SMT DEF Ending
<1> QED BY <1>1, <1>3, <1>4, SameOwner, Zenon

LEMMA CleanUpOwner ==
  ASSUME TypeOK, CallInv, OwnerInv, CleanUp
  PROVE  OwnerInv' /\ call.by \in Task
<1>1. /\ call' = Free /\ call.pc = "cleanup"
      /\ run' = [run EXCEPT ![call.by] = "finished"]
  BY Zenon DEF CleanUp
<1>2. call.by \in Task BY <1>1, SMT DEF CallInv, Stage
<1>3. run \in [Task -> Phase] BY Zenon DEF TypeOK
<1>4. ASSUME NEW t \in Task, run'[t] = "finishing" PROVE FALSE
  <2>1. t # call.by BY <1>1, <1>2, <1>3, <1>4, SMT
  <2>2. run[t] = "finishing" BY <1>1, <1>3, <1>4, <2>1, SMT
  <2> QED BY <2>1, <2>2, Zenon DEF OwnerInv
<1> QED BY <1>1, <1>2, <1>4, FreeOwner

LEMMA FlushOwner ==
  ASSUME TypeOK, CallInv, OwnerInv, Flush
  PROVE  OwnerInv'
<1>1. /\ call = Free /\ ~Ending /\ UNCHANGED <<ledger, run>>
      /\ call' = [Free EXCEPT !.pc = "flush"]
  BY FreeNotEnding, Zenon DEF Flush, book, task
<1>2. /\ call'.by = call.by /\ call'.event = call.event
      /\ call'.todo = call.todo /\ call'.pc = "flush" /\ call'.then = "free"
      /\ call.pc = "free" /\ call.then = "free"
  BY <1>1, SMT DEF Free
<1>3. ~Ending' /\ "ledger" \notin Stage /\ "ledger" \notin Stage'
  BY <1>2, SMT DEF Ending, Stage
<1> QED BY <1>1, <1>2, <1>3, SameOwner, Zenon

\* A run that starts or leaves has no call under way.
LEMMA RunOwner ==
  ASSUME TypeOK, OwnerInv, NEW t \in Task, Start(t) \/ Leave(t)
  PROVE  /\ OwnerInv' /\ UNCHANGED <<memory, view, buffer, kept, ledger, call>>
         /\ \A u \in Task : run'[u] = "finished" => run[u] = "finished"
<1>1. UNCHANGED <<memory, view, buffer, kept, ledger, call>>
  BY Zenon DEF Start, Leave, book, disk
<1>2. /\ run[t] \in {"idle", "paused", "finished", "running"}
      /\ call.by # t
  <2>1. CASE Leave(t) BY <2>1, Zenon DEF Leave
  <2>2. CASE Start(t)
    <3>1. run[t] \in {"idle", "paused", "finished"} BY <2>2, Zenon DEF Start
    <3>2. t # None BY ConstantsAssumption, SMT
    <3>3. call.by = t => run[t] \in {"running", "failing", "finishing"}
      BY <3>2, Zenon DEF OwnerInv
    <3> QED BY <3>1, <3>3
  <2> QED BY <2>1, <2>2
<1>3. PICK to \in {"running", "paused", "failing"} : run' = [run EXCEPT ![t] = to]
  BY Zenon DEF Start, Leave
<1>4. run \in [Task -> Phase] BY Zenon DEF TypeOK
<1>5. run'[t] = to /\ \A u \in Task \ {t} : run'[u] = run[u]
  BY <1>3, <1>4, SMT
<1>6. \A u \in Task : run'[u] = "finishing" <=> run[u] = "finishing"
  BY <1>2, <1>3, <1>5
<1>7. \A u \in Task : run'[u] = "finished" => run[u] = "finished"
  BY <1>3, <1>5
<1>8. call.by # None => run'[call.by] = run[call.by]
  <2>1. call.by \in Task \cup {None} BY CallTyped, SMT DEF Call
  <2> QED BY <1>2, <1>5, <2>1
<1>9. Stage' = Stage BY <1>1, Zenon DEF Stage
<1>10. OwnerInv'
  BY <1>1, <1>6, <1>8, <1>9, SameOwner, Zenon DEF Ending
<1> QED BY <1>1, <1>7, <1>10

LEMMA MarkOwner ==
  ASSUME TypeOK, CallInv, OwnerInv, Mark
  PROVE  OwnerInv'
<1>1. call.pc = "mark" /\ run' = run BY Zenon DEF Mark, task
<1>2. ~Ending BY <1>1, StageIs, SMT DEF Ending
<1> QED BY <1>1, <1>2, MarkFrees, NobodyEnding, FreeOwner

LEMMA OwnerStep == TypeOK /\ CallInv /\ OwnerInv /\ [Next]_vars => OwnerInv'
<1> SUFFICES ASSUME TypeOK, CallInv, OwnerInv, [Next]_vars PROVE OwnerInv'
  OBVIOUS
<1>1. CASE UNCHANGED vars
  <2>1. UNCHANGED <<ledger, call, run>> BY <1>1, SMT DEF vars
  <2>2. Stage' = Stage BY <2>1, Zenon DEF Stage
  <2> QED BY <2>1, <2>2, SameOwner, Zenon DEF Ending
<1>2. CASE CallStep
  BY <1>2, OnwardOwner, RaiseOwner, FillOwner, ReportOwner, MarkOwner,
     FinalFlushOwner, CleanUpOwner, Zenon DEF CallStep, RefuseBatch, RefuseMetric
<1> QED BY <1>1, <1>2, FlushOwner, HandleOwner, OnTickOwner, FinishOwner,
           RunOwner, Zenon DEF Next

-----------------------------------------------------------------------------
\* The end of a task: what it writes.

\* A key tells the kind of a record and what it is of.
LEMMA FinalKind ==
  ASSUME NEW t \in Task, NEW r \in FinalRecs(t)
  PROVE  LET x == r.key[2]
         IN \/ r.key[1] = "trade" /\ x \in Known(t) /\ r = TradeRec(x)
            \/ r.key[1] = "cycle" /\ x \in LedgerCycles(t) /\ r = CycleRec(x, t)
            \/ /\ r.key[1] = "cycle" /\ x \in MemoryCycles(t) \ LedgerCycles(t)
               /\ r = [key |-> <<"cycle", x>>, val |-> memory[<<"cycle", x>>]]
            \/ /\ r.key[1] = "task"
               /\ r = [key |-> <<"task", t>>, val |-> Total(Known(t))]
<1>1. \A kind, x : r.key = <<kind, x>> => r.key[1] = kind /\ r.key[2] = x BY SMT
<1>2. CASE \E tr \in Known(t) : r = TradeRec(tr) /\ r.key = <<"trade", tr>>
  BY <1>1, <1>2, Zenon
<1>3. CASE \E c \in LedgerCycles(t) : r = CycleRec(c, t) /\ r.key = <<"cycle", c>>
  BY <1>1, <1>3, Zenon
<1>4. CASE \E c \in MemoryCycles(t) \ LedgerCycles(t) :
             /\ r = [key |-> <<"cycle", c>>, val |-> memory[<<"cycle", c>>]]
             /\ r.key = <<"cycle", c>>
  BY <1>1, <1>4, Zenon
<1>5. CASE r = [key |-> <<"task", t>>, val |-> Total(Known(t))]
           /\ r.key = <<"task", t>>
  BY <1>1, <1>5, Zenon
<1> QED BY <1>2, <1>3, <1>4, <1>5, FinalRecsAre

\* What on_task_finished writes under a key is one record.
LEMMA OneFinalRec ==
  ASSUME NEW t \in Task, NEW r \in FinalRecs(t), NEW q \in FinalRecs(t), r.key = q.key
  PROVE  r = q
<1>1. "trade" # "cycle" /\ "trade" # "task" /\ "cycle" # "task" BY SMT
<1>2. CASE r.key[1] = "trade" BY <1>1, <1>2, FinalKind, Zenon
<1>3. CASE r.key[1] = "cycle" BY <1>1, <1>3, FinalKind, Zenon
<1>4. CASE r.key[1] = "task" BY <1>1, <1>4, FinalKind, Zenon
<1> QED BY <1>2, <1>3, <1>4, FinalKind, Zenon

\* Summaries are made of the ledger and of memory's trades.
LEMMA SummariesSame ==
  ASSUME UNCHANGED ledger, \A tr \in Trade : Summary(tr)' = Summary(tr),
         NEW t \in Task
  PROVE  /\ InLedger(t)' = InLedger(t) /\ Known(t)' = Known(t)
         /\ LedgerCycles(t)' = LedgerCycles(t)
         /\ \A tr \in Trade : TradeRec(tr)' = TradeRec(tr)
         /\ \A c : CycleRec(c, t)' = CycleRec(c, t)
         /\ Total(Known(t))' = Total(Known(t))
<1>1. InLedger(t)' = InLedger(t) BY Zenon DEF InLedger
<1>2. Known(t)' = Known(t) BY SMT DEF Known
<1>3. LedgerCycles(t)' = LedgerCycles(t) BY <1>1, Zenon DEF LedgerCycles
<1>4. ASSUME NEW S \in SUBSET Trade
      PROVE  Total(S)' = Total(S)
  <2>1. {tr \in S : Summary(tr).closed = None}' = {tr \in S : Summary(tr).closed = None}
    BY SMT
  <2>2. {Summary(tr).closed : tr \in S}' = {Summary(tr).closed : tr \in S} BY SMT
  <2> QED BY <2>1, <2>2, Zenon DEF Total
<1>5. \A tr \in Trade : TradeRec(tr)' = TradeRec(tr) BY Zenon DEF TradeRec
<1>6. \A c : CycleRec(c, t)' = CycleRec(c, t)
  <2> TAKE c
  <2> DEFINE S == {tr \in InLedger(t) : CycleOf[tr] = c}
  <2>1. S \in SUBSET Trade /\ S' = S BY <1>1, Zenon DEF InLedger
  <2>2. Total(S)' = Total(S) BY <1>4, <2>1
  <2> QED BY <2>1, <2>2, Zenon DEF CycleRec
<1>7. Total(Known(t))' = Total(Known(t))
  <2>1. Known(t) \in SUBSET Trade BY Zenon DEF Known
  <2> QED BY <1>2, <1>4, <2>1
<1> QED BY <1>1, <1>2, <1>3, <1>5, <1>6, <1>7

\* Saving one of the records it writes changes none of them.
LEMMA FinalStable ==
  ASSUME TypeOK, NEW t \in Task, NEW r \in FinalRecs(t), UNCHANGED ledger,
         memory' = [memory EXCEPT ![r.key] = r.val]
  PROVE  FinalRecs(t)' = FinalRecs(t)
<1>1. \A k \in Key : memory'[k] = IF k = r.key THEN r.val ELSE memory[k]
  BY SMT DEF TypeOK, Shown
<1>2. \A tr \in Trade : Summary(tr)' = Summary(tr)
  <2> TAKE tr \in Trade
  <2> DEFINE k == <<"trade", tr>>
  <2>1. k \in Key /\ k[1] = "trade" /\ k[2] = tr BY SMT DEF Key
  <2>2. ledger[tr] = None => memory'[k] = memory[k]
    <3>1. CASE k # r.key
      <4> HIDE DEF k
      <4> QED BY <1>1, <2>1, <3>1
    <3>2. CASE k = r.key
      <4>1. r = TradeRec(tr)
        <5>1. "trade" # "cycle" /\ "trade" # "task" BY SMT
        <5> HIDE DEF k
        <5> QED BY <2>1, <3>2, <5>1, FinalKind, Zenon
      <4>2. r.val = Summary(tr) BY <4>1, Zenon DEF TradeRec
      <4>3. memory'[k] = Summary(tr)
        <5> HIDE DEF k
        <5> QED BY <1>1, <2>1, <3>2, <4>2
      <4> QED BY <4>3, Zenon DEF Summary
    <3> QED BY <3>1, <3>2
  <2> QED BY <2>2, Zenon DEF Summary
<1>3. /\ Known(t)' = Known(t) /\ LedgerCycles(t)' = LedgerCycles(t)
      /\ \A tr \in Trade : TradeRec(tr)' = TradeRec(tr)
      /\ \A c : CycleRec(c, t)' = CycleRec(c, t)
      /\ Total(Known(t))' = Total(Known(t))
  BY <1>2, SummariesSame
<1>4. \A c \in Cycle \ LedgerCycles(t) : memory'[<<"cycle", c>>] = memory[<<"cycle", c>>]
  <2> TAKE c \in Cycle \ LedgerCycles(t)
  <2> DEFINE k == <<"cycle", c>>
  <2> SUFFICES memory'[k] = memory[k] OBVIOUS
  <2>1. k \in Key /\ k[1] = "cycle" /\ k[2] = c BY SMT DEF Key
  <2>2. CASE k # r.key
    <3> HIDE DEF k
    <3> QED BY <1>1, <2>1, <2>2
  <2>3. CASE k = r.key
    <3>1. r = [key |-> k, val |-> memory[k]]
      <4>1. "cycle" # "trade" /\ "cycle" # "task" BY SMT
      <4> QED BY <2>1, <2>3, <4>1, FinalKind, Zenon
    <3> HIDE DEF k
    <3>2. r.val = memory[k] BY <3>1
    <3> QED BY <1>1, <2>1, <2>3, <3>2
  <2> QED BY <2>2, <2>3
<1>5. MemoryCycles(t)' \ LedgerCycles(t) = MemoryCycles(t) \ LedgerCycles(t)
  BY <1>4, SMT DEF MemoryCycles
<1>6. {TradeRec(tr) : tr \in Known(t)}' = {TradeRec(tr) : tr \in Known(t)}
  <2>1. Known(t) \subseteq Trade BY Zenon DEF Known
  <2> QED BY <1>3, <2>1, SMT
<1>7. {CycleRec(c, t) : c \in LedgerCycles(t)}' = {CycleRec(c, t) : c \in LedgerCycles(t)}
  BY <1>3, SMT
<1>8. {[key |-> <<"cycle", c>>, val |-> memory[<<"cycle", c>>]] :
         c \in MemoryCycles(t) \ LedgerCycles(t)}' =
      {[key |-> <<"cycle", c>>, val |-> memory[<<"cycle", c>>]] :
         c \in MemoryCycles(t) \ LedgerCycles(t)}
  <2> DEFINE C == MemoryCycles(t) \ LedgerCycles(t)
  <2>1. C \subseteq Cycle \ LedgerCycles(t) /\ C' = C
    BY <1>3, <1>5, Zenon DEF MemoryCycles
  <2>2. \A c \in C : [key |-> <<"cycle", c>>, val |-> memory'[<<"cycle", c>>]]
                   = [key |-> <<"cycle", c>>, val |-> memory[<<"cycle", c>>]]
    BY <1>4, <2>1, Zenon
  <2> HIDE DEF C
  <2>3. {[key |-> <<"cycle", c>>, val |-> memory'[<<"cycle", c>>]] : c \in C}
      = {[key |-> <<"cycle", c>>, val |-> memory[<<"cycle", c>>]] : c \in C}
    BY <2>2, Zenon
  <2> QED BY <2>1, <2>3, Zenon DEF C
<1> QED BY <1>3, <1>6, <1>7, <1>8, Zenon DEF FinalRecs

\* What is left to do after a record was saved, and after a store was flushed.
LEMMA SaveIs ==
  ASSUME TypeOK, Save
  PROVE  \E r \in call.todo :
           /\ r \in Rec /\ memory' = [memory EXCEPT ![r.key] = r.val]
           /\ buffer' = [s \in Store |-> Append(buffer[s], r)]
           /\ view' = view
           /\ call' = Free \/ call'.todo = call.todo \ {r}
<1>1. PICK r \in call.todo :
        /\ memory' = [memory EXCEPT ![r.key] = r.val]
        /\ buffer' = [s \in Store |-> Append(buffer[s], r)]
        /\ LET c == [call EXCEPT !.todo = @ \ {r}]
           IN IF count + 1 >= FlushEvery
              THEN call' = [c EXCEPT !.pc = "flush", !.at = 1]
              ELSE Proceed(c)
  BY Zenon DEF Save
<1> DEFINE c == [call EXCEPT !.todo = @ \ {r}]
<1>2. c \in Call /\ c.todo = call.todo \ {r} /\ r \in Rec
  BY CallTyped, SMT DEF Call
<1>3. call' = Free \/ call'.todo = c.todo
  <2>1. CASE count + 1 >= FlushEvery
    <3>1. call' = [c EXCEPT !.pc = "flush", !.at = 1] BY <1>1, <2>1
    <3> HIDE DEF c
    <3> QED BY <1>2, <3>1, SMT DEF Call
  <2>2. CASE ~(count + 1 >= FlushEvery)
    <3>1. call' = Continue(c) BY <1>1, <2>2, Zenon DEF Proceed
    <3> HIDE DEF c
    <3> QED BY <1>2, <3>1, ContinueIs, Zenon
  <2> QED BY <2>1, <2>2
<1>4. view' = view BY Zenon DEF Save, disk
<1> QED BY <1>1, <1>2, <1>3, <1>4

LEMMA FlushStoreIs ==
  ASSUME TypeOK, FlushStore
  PROVE  /\ memory' = memory /\ call.pc = "flush" /\ call.at \in Store
         /\ call' = Free \/ call'.todo = call.todo
         /\ buffer'[call.at] = <<>>
         /\ \A s \in Store : buffer'[s] \in {buffer[s], <<>>}
         /\ \A s \in Store : view'[s] \in {view[s], Written(buffer[s], 1..Len(buffer[s]), view[s])}
         /\ call'.pc # "flush" => call.at = Len(Stores)
<1>1. call \in Call /\ call.pc = "flush" /\ memory' = memory
  BY CallTyped, Zenon DEF FlushStore
<1>2. call.at \in Store BY <1>1, SMT DEF Call
<1>3. /\ buffer'[call.at] = <<>>
      /\ \A s \in Store : buffer'[s] \in {buffer[s], <<>>}
      /\ \A s \in Store : view'[s] \in {view[s], Written(buffer[s], 1..Len(buffer[s]), view[s])}
  <2>1. CASE buffer[call.at] = <<>> BY <1>2, <2>1, Zenon DEF FlushStore, disk
  <2>2. CASE buffer[call.at] # <<>>
    <3>1. /\ view' = [view EXCEPT ![call.at] =
                        Written(buffer[call.at], 1..Len(buffer[call.at]), @)]
          /\ buffer' = [buffer EXCEPT ![call.at] = <<>>]
      BY <2>2, Zenon DEF FlushStore
    <3> QED BY <1>2, <3>1, Zenon DEF TypeOK
  <2> QED BY <2>1, <2>2
<1>4. CASE call.at < Len(Stores)
  <2>1. call' = [call EXCEPT !.at = @ + 1]
    BY <1>4, Zenon DEF FlushStore, Flushed
  <2>2. call'.todo = call.todo /\ call'.pc = "flush" BY <1>1, <2>1, SMT DEF Call
  <2> QED BY <1>1, <1>2, <1>3, <2>2
<1>5. CASE ~(call.at < Len(Stores))
  <2>1. call.at = Len(Stores) BY <1>2, <1>5, Stores1, SMT DEF Store
  <2>2. call' = Continue(call)
    BY <1>5, Zenon DEF FlushStore, Flushed, Proceed
  <2>3. call' = Free \/ call'.todo = call.todo BY <1>1, <2>2, ContinueIs, Zenon
  <2> QED BY <1>1, <1>2, <1>3, <2>1, <2>3
<1> QED BY <1>4, <1>5

LEMMA EndingIs ==
  /\ Ending <=> \/ call.pc \in {"final", "cleanup"}
                \/ call.then \in {"final", "cleanup"}
  /\ Ending' <=> \/ call'.pc \in {"final", "cleanup"}
                 \/ call'.then \in {"final", "cleanup"}
BY Zenon DEF Ending, Stage

LEMMA NotEnding ==
  ASSUME ~Ending' PROVE EndingInv'
<1>1. "cleanup" \notin Stage' BY SMT DEF Ending
<1>2. call'.pc # "cleanup" BY <1>1, SMT DEF Stage
<1> QED BY <1>1, <1>2, Zenon DEF EndingInv

LEMMA FreeEnds == call' = Free => ~Ending'
BY SMT DEF Ending, Stage, Free

LEMMA EndingBy == TypeOK /\ CallInv /\ Ending => call.by \in Task
BY SMT DEF Ending, CallInv

LEMMA SaveEnding ==
  ASSUME TypeOK, CallInv, OwnerInv, EndingInv, Save
  PROVE  EndingInv'
<1>1. PICK r \in call.todo :
         /\ r \in Rec /\ memory' = [memory EXCEPT ![r.key] = r.val]
         /\ call' = Free \/ call'.todo = call.todo \ {r}
  BY SaveIs
<1>2. UNCHANGED ledger /\ call.pc = "save" BY OnwardIs, Zenon DEF Save
<1>3. CASE call' = Free BY <1>3, FreeEnds, NotEnding
<1>4. CASE call' # Free
  <2>1. /\ call'.by = call.by /\ call'.then = call.then
        /\ call'.pc \in {"save", "flush", call.then}
        /\ call'.todo = call.todo \ {r}
    BY <1>1, <1>4, OnwardIs
  <2>2. Ending' <=> Ending
    <3>1. Ending <=> call.then \in {"final", "cleanup"}
      BY <1>2, EndingIs
    <3>2. Ending' <=> call'.then \in {"final", "cleanup"}
      BY <2>1, EndingIs
    <3> QED BY <2>1, <3>1, <3>2
  <2>3. CASE ~Ending BY <2>2, <2>3, NotEnding
  <2>4. CASE Ending
    <3> DEFINE t == call.by
    <3>1. t \in Task BY <2>4, EndingBy
    <3>2. /\ call.todo \subseteq FinalRecs(t)
          /\ \A q \in FinalRecs(t) \ call.todo : memory[q.key] = q.val
          /\ "cleanup" \notin Stage
      BY <1>1, <2>4, Zenon DEF EndingInv
    <3>3. FinalRecs(t)' = FinalRecs(t) /\ t' = t
      <4>1. r \in FinalRecs(t) BY <1>1, <3>2
      <4>2. ASSUME NEW u \in Task, u = t PROVE FinalRecs(u)' = FinalRecs(u)
        BY <1>1, <1>2, <4>1, <4>2, FinalStable
      <4>3. PICK u \in Task : u = t BY <3>1
      <4>4. FinalRecs(u)' = FinalRecs(u) BY <4>2, <4>3
      <4>5. t' = t BY <2>1
      <4> QED BY <4>3, <4>4, <4>5
    <3>4. \A q \in FinalRecs(t) \ call'.todo : memory'[q.key] = q.val
      <4> TAKE q \in FinalRecs(t) \ call'.todo
      <4>1. r.key \in Key /\ memory \in [Key -> Value \cup {None}]
        BY <1>1, Zenon DEF Rec, TypeOK, Shown
      <4>2. CASE q = r BY <1>1, <4>1, <4>2, SMT
      <4>3. CASE q # r
        <5>1. q \in FinalRecs(t) \ call.todo BY <2>1, <4>3
        <5>2. r \in FinalRecs(t) BY <1>1, <3>2
        <5>3. q.key # r.key BY <3>1, <4>3, <5>1, <5>2, OneFinalRec
        <5>4. memory[q.key] = q.val BY <3>2, <5>1
        <5>5. q \in Rec BY <3>1, <5>1, FinalRecsType, Zenon
        <5>6. q.key \in Key BY <5>5, Zenon DEF Rec
        <5> QED BY <1>1, <4>1, <5>3, <5>4, <5>6, SMT
      <4> QED BY <4>2, <4>3
    <3>5. "cleanup" \notin Stage'
      <4>1. call.then # "cleanup" BY <3>2, Zenon DEF Stage
      <4> QED BY <2>1, <4>1, SMT DEF Stage
    <3>6. call'.pc # "cleanup" BY <3>5, Zenon DEF Stage
    <3> QED BY <2>1, <3>2, <3>3, <3>4, <3>5, <3>6, Zenon DEF EndingInv
  <2> QED BY <2>3, <2>4
<1> QED BY <1>3, <1>4

\* What on_task_finished writes is made of memory and the ledger.
LEMMA FinalFrame ==
  ASSUME UNCHANGED <<memory, ledger>>, NEW t \in Task
  PROVE  FinalRecs(t)' = FinalRecs(t)
<1>1. \A tr \in Trade : Summary(tr)' = Summary(tr) BY Zenon DEF Summary
<1>2. /\ Known(t)' = Known(t) /\ LedgerCycles(t)' = LedgerCycles(t)
      /\ \A tr \in Trade : TradeRec(tr)' = TradeRec(tr)
      /\ \A c : CycleRec(c, t)' = CycleRec(c, t)
      /\ Total(Known(t))' = Total(Known(t))
  BY <1>1, SummariesSame
<1>3. {TradeRec(tr) : tr \in Known(t)}' = {TradeRec(tr) : tr \in Known(t)}
  <2>1. Known(t) \subseteq Trade BY Zenon DEF Known
  <2> QED BY <1>2, <2>1, SMT
<1>4. {CycleRec(c, t) : c \in LedgerCycles(t)}' = {CycleRec(c, t) : c \in LedgerCycles(t)}
  BY <1>2, SMT
<1>5. {[key |-> <<"cycle", c>>, val |-> memory[<<"cycle", c>>]] :
         c \in MemoryCycles(t) \ LedgerCycles(t)}' =
      {[key |-> <<"cycle", c>>, val |-> memory[<<"cycle", c>>]] :
         c \in MemoryCycles(t) \ LedgerCycles(t)}
  <2>1. MemoryCycles(t)' = MemoryCycles(t) BY Zenon DEF MemoryCycles
  <2> QED BY <1>2, <2>1, Zenon
<1> QED BY <1>2, <1>3, <1>4, <1>5, Zenon DEF FinalRecs

\* The task a call ends writes the same when memory and the ledger stay.
LEMMA EndingFrame ==
  ASSUME TypeOK, CallInv, UNCHANGED <<memory, ledger>>, call'.by = call.by, Ending
  PROVE  FinalRecs(call.by)' = FinalRecs(call.by)
<1>1. PICK t \in Task : t = call.by BY EndingBy
<1>2. FinalRecs(t)' = FinalRecs(t) BY FinalFrame
<1> QED BY <1>1, <1>2, Zenon

LEMMA FlushStoreEnding ==
  ASSUME TypeOK, CallInv, BacklogInv, OwnerInv, EndingInv, FlushStore
  PROVE  EndingInv'
<1>1. CASE call' = Free BY <1>1, FreeEnds, NotEnding
<1>2. CASE call' # Free
  <2>1. /\ call'.by = call.by /\ call'.then = call.then
        /\ call'.pc \in {"save", "flush", call.then} /\ call'.todo = call.todo
        /\ call'.pc \notin {"save", "flush"} => call'.todo = {}
        /\ UNCHANGED <<memory, ledger>> /\ call.pc = "flush"
    BY <1>2, OnwardIs, FlushStoreIs
  <2>2. Ending' <=> Ending BY <2>1, EndingIs
  <2>3. CASE ~Ending BY <2>2, <2>3, NotEnding
  <2>4. CASE Ending
    <3>1. FinalRecs(call.by)' = FinalRecs(call.by) BY <2>1, <2>4, EndingFrame, Zenon
    <3>2. Ending' => /\ call'.todo \subseteq FinalRecs(call.by)'
                     /\ \A q \in FinalRecs(call.by)' \ call'.todo :
                          memory'[q.key] = q.val
      BY <2>1, <2>4, <3>1, Zenon DEF EndingInv
    <3>3. "cleanup" \in Stage' => call'.todo = {}
      <4>1. "cleanup" \in Stage' => call.then = "cleanup"
        BY <2>1, SMT DEF Stage
      <4>2. call.then = "cleanup" => call.todo = {} BY Zenon DEF EndingInv, Stage
      <4> QED BY <2>1, <4>1, <4>2
    <3>4. call'.pc = "cleanup" => \A s \in Store : buffer'[s] = <<>>
      <4> SUFFICES ASSUME call'.pc = "cleanup", NEW s \in Store
                   PROVE buffer'[s] = <<>>
        OBVIOUS
      <4>1. call.at = Len(Stores) BY FlushStoreIs
      <4>2. CASE s = call.at BY <4>2, FlushStoreIs
      <4>3. CASE s # call.at
        <5>1. s \in 1..(call.at - 1) BY <4>1, <4>3, Stores1, SMT DEF Store
        <5>2. buffer[s] = <<>> BY <2>1, <5>1, SMT DEF BacklogInv
        <5> QED BY <5>2, FlushStoreIs
      <4> QED BY <4>2, <4>3
    <3> QED BY <3>2, <3>3, <3>4, Zenon DEF EndingInv
  <2> QED BY <2>3, <2>4
<1> QED BY <1>1, <1>2

LEMMA FinalFlushEnding ==
  ASSUME TypeOK, CallInv, EndingInv, FinalFlush
  PROVE  EndingInv'
<1>1. /\ call \in Call /\ call.pc = "final" /\ UNCHANGED <<memory, ledger>>
      /\ call' = [call EXCEPT !.pc = "flush", !.at = 1, !.then = "cleanup"]
  BY CallTyped, Zenon DEF FinalFlush, book
<1>2. /\ call'.by = call.by /\ call'.todo = call.todo
      /\ call'.pc = "flush" /\ call'.then = "cleanup" /\ call.todo = {}
  BY <1>1, StageIs, SMT DEF Call
<1>3. Ending BY <1>1, EndingIs
<1>4. FinalRecs(call.by)' = FinalRecs(call.by) BY <1>1, <1>2, <1>3, EndingFrame, Zenon
<1> QED BY <1>1, <1>2, <1>3, <1>4, Zenon DEF EndingInv

LEMMA FinishEnding ==
  ASSUME NEW t \in Task, Finish(t)
  PROVE  EndingInv'
<1>1. call' = Saving(t, FinalRecs(t), "final", None) /\ UNCHANGED <<memory, ledger>>
  BY Zenon DEF Finish, book
<1>2. /\ call'.by = t /\ call'.todo = FinalRecs(t)
      /\ call'.pc = "save" /\ call'.then = "final"
  BY <1>1, Zenon DEF Saving
<1>3. FinalRecs(call.by)' = FinalRecs(t)
  <2>1. FinalRecs(t)' = FinalRecs(t) BY <1>1, FinalFrame, Zenon
  <2> QED BY <1>2, <2>1, Zenon
<1>4. "cleanup" \notin Stage'
  <2>1. Stage' = {"save", "final"} BY <1>2, Zenon DEF Stage
  <2> QED BY <2>1, SMT
<1> QED BY <1>2, <1>3, <1>4, Zenon DEF EndingInv

\* The other steps are of calls that end no task.
LEMMA OtherEnding ==
  ASSUME TypeOK, CallInv, OwnerInv, EndingInv,
         \/ RefuseBatch \/ RefuseMetric \/ Fill \/ Report \/ Mark \/ CleanUp \/ Flush
         \/ \E e \in Event : Handle(e)
         \/ \E t \in Task : OnTick(t)
  PROVE  EndingInv'
<1>1. \A by, todo, then, event :
        call' = Saving(by, todo, then, event) => call'.pc = "save" /\ call'.then = then
  BY SavingIs
<1>2. CASE RefuseBatch \/ RefuseMetric \/ CleanUp
  BY <1>2, FreeEnds, NotEnding, Zenon DEF RefuseBatch, RefuseMetric, CleanUp, Raise
<1>3. CASE Mark BY <1>3, MarkFrees, FreeEnds, NotEnding
<1>4. CASE Fill
  <2>1. CASE call' = Free BY <2>1, FreeEnds, NotEnding
  <2>2. CASE call' # Free
    <3>1. call'.pc = "report" /\ call'.then = "report" BY <1>4, <2>2, FillEffect
    <3>2. ~Ending' BY <3>1, EndingIs
    <3> QED BY <3>2, NotEnding
  <2> QED BY <2>1, <2>2
<1>5. CASE Report
  <2>1. call'.pc = "save" /\ call'.then = "free" BY <1>1, <1>5, Zenon DEF Report
  <2>2. ~Ending' BY <2>1, EndingIs
  <2> QED BY <2>2, NotEnding
<1>6. CASE Flush
  <2>1. call'.pc = "flush" /\ call'.then = "free" BY <1>6, SMT DEF Flush, Free
  <2>2. ~Ending' BY <2>1, EndingIs
  <2> QED BY <2>2, NotEnding
<1>7. ASSUME NEW e \in Event, Handle(e) PROVE EndingInv'
  <2>1. \E by, todo, event :
          \/ call' = Saving(by, todo, "ledger", event)
          \/ call' = Saving(by, todo, "free", event)
    <3>1. PICK by, filled, todo, event :
            call' = Saving(by, todo, IF filled THEN "ledger" ELSE "free", event)
      BY <1>7, Zenon DEF Handle
    <3> QED BY <3>1, Zenon
  <2>2. call'.pc = "save" /\ call'.then \in {"free", "ledger"}
    BY <1>1, <2>1, Zenon
  <2>3. ~Ending' BY <2>2, EndingIs
  <2> QED BY <2>3, NotEnding
<1>8. ASSUME NEW t \in Task, OnTick(t) PROVE EndingInv'
  <2>1. call' = Free \/ (call'.pc = "save" /\ call'.then = "mark")
    <3>1. \/ call' = call
          \/ \E todo : call' = Saving(t, todo, "mark", None)
      BY <1>8, Zenon DEF OnTick
    <3>2. call = Free BY <1>8, FreeNotEnding, Zenon DEF OnTick
    <3> QED BY <1>1, <3>1, <3>2, Zenon
  <2>2. ~Ending' BY <2>1, EndingIs, FreeEnds
  <2> QED BY <2>2, NotEnding
<1> QED BY <1>2, <1>3, <1>4, <1>5, <1>6, <1>7, <1>8

LEMMA EndingStep ==
  TypeOK /\ CallInv /\ BacklogInv /\ OwnerInv /\ EndingInv /\ [Next]_vars => EndingInv'
<1> SUFFICES ASSUME TypeOK, CallInv, BacklogInv, OwnerInv, EndingInv, [Next]_vars
             PROVE EndingInv'
  OBVIOUS
<1>1. ASSUME UNCHANGED <<memory, ledger, call, buffer>> PROVE EndingInv'
  <2>1. Ending => FinalRecs(call.by)' = FinalRecs(call.by)
    BY <1>1, EndingFrame, Zenon
  <2>2. Stage' = Stage BY <1>1, Zenon DEF Stage
  <2> QED BY <1>1, <2>1, <2>2, Zenon DEF EndingInv, Ending
<1>2. CASE UNCHANGED vars BY <1>1, <1>2, Zenon DEF vars, book
<1>3. ASSUME NEW t \in Task, Start(t) \/ Leave(t) PROVE EndingInv'
  BY <1>1, <1>3, RunOwner
<1>4. CASE CallStep
  BY <1>4, SaveEnding, FlushStoreEnding, FinalFlushEnding, OtherEnding, Zenon
     DEF CallStep
<1> QED BY <1>2, <1>3, <1>4, OtherEnding, FinishEnding, Zenon DEF Next

-----------------------------------------------------------------------------
\* The end of a task: what is buffered, what is known.

\* A finished task has no call under way.
LEMMA FinishedIdle ==
  ASSUME OwnerInv, NEW t \in Task, run[t] = "finished"
  PROVE  call.by # t /\ \A r \in call.todo : ~OfTask(r.key, t)
<1>1. t # None BY ConstantsAssumption, SMT
<1>2. call.by # t BY <1>1, SMT DEF OwnerInv
<1> QED BY <1>2, Zenon DEF OwnerInv

\* Only the clean-up finishes a task.
LEMMA OnlyCleanUpFinishes ==
  ASSUME TypeOK, CallInv, OwnerInv, [Next]_vars, NEW t \in Task, run'[t] = "finished"
  PROVE  run[t] = "finished" \/ (CleanUp /\ call.by = t)
<1>0. run \in [Task -> Phase] BY Zenon DEF TypeOK
<1>1. CASE UNCHANGED <<run>> BY <1>1, Zenon
<1>2. CASE Raise
  <2>1. CASE call.by = None BY <1>2, <2>1, Zenon DEF Raise
  <2>2. CASE call.by # None
    <3>1. run' = [run EXCEPT ![call.by] =
                    IF @ = "running" THEN "failing" ELSE "dead"]
      BY <1>2, <2>2, Zenon DEF Raise
    <3>2. call.by = t => run'[t] \in {"failing", "dead"} BY <1>0, <3>1, SMT
    <3>3. call.by # t => run'[t] = run[t] BY <1>0, <3>1, SMT
    <3> QED BY <3>2, <3>3
  <2> QED BY <2>1, <2>2
<1>3. CASE CleanUp
  <2>1. run' = [run EXCEPT ![call.by] = "finished"] BY <1>3, Zenon DEF CleanUp
  <2> QED BY <1>0, <1>3, <2>1, SMT
<1>4. ASSUME NEW u \in Task, Finish(u) PROVE run[t] = "finished"
  <2>1. run' = [run EXCEPT ![u] = "finishing"] BY <1>4, Zenon DEF Finish
  <2> QED BY <1>0, <2>1, SMT
<1>5. ASSUME NEW u \in Task, Start(u) \/ Leave(u) PROVE run[t] = "finished"
  BY <1>5, RunOwner
<1>6. CASE UNCHANGED vars BY <1>1, <1>6, Zenon DEF vars, task
<1>7. CASE Save \/ FlushStore BY <1>1, <1>7, OnwardIs
<1>8. CASE RefuseBatch \/ RefuseMetric
  BY <1>2, <1>8, Zenon DEF RefuseBatch, RefuseMetric
<1>9. CASE Fill \/ Report \/ Mark \/ FinalFlush \/ Flush
  BY <1>1, <1>9, Zenon DEF Fill, Report, Mark, FinalFlush, Flush, task
<1>10. ASSUME NEW e \in Event, Handle(e) PROVE run[t] = "finished"
  BY <1>1, <1>10, Zenon DEF Handle, task
<1>11. ASSUME NEW u \in Task, OnTick(u) PROVE run[t] = "finished"
  BY <1>1, <1>11, Zenon DEF OnTick
<1> QED BY <1>3, <1>4, <1>5, <1>6, <1>7, <1>8, <1>9, <1>10, <1>11, Zenon
           DEF Next, CallStep

\* What the steps that neither save nor flush leave alone.
LEMMA NoWrite ==
  ASSUME TypeOK, CallInv, OwnerInv,
         \/ RefuseMetric \/ Fill \/ Report \/ Mark \/ CleanUp \/ Flush \/ FinalFlush
         \/ \E e \in Event : Handle(e)
         \/ \E t \in Task : OnTick(t) \/ Finish(t) \/ Start(t) \/ Leave(t)
         \/ UNCHANGED vars
  PROVE  UNCHANGED <<memory, buffer, view>>
<1>1. CASE \/ RefuseMetric \/ Fill \/ Report \/ Mark \/ CleanUp \/ Flush \/ FinalFlush
           \/ UNCHANGED vars
  BY <1>1, Zenon DEF RefuseMetric, Fill, Report, Mark, CleanUp, Flush, FinalFlush,
     disk, vars
<1>2. CASE \E e \in Event : Handle(e) BY <1>2, Zenon DEF Handle, disk
<1>3. CASE \E t \in Task : OnTick(t) \/ Finish(t) \/ Start(t) \/ Leave(t)
  BY <1>3, RunOwner, Zenon DEF OnTick, Finish, disk
<1> QED BY <1>1, <1>2, <1>3

LEMMA BufferedStep ==
  TypeOK /\ CallInv /\ OwnerInv /\ EndingInv /\ NothingBuffered /\ [Next]_vars
    => NothingBuffered'
<1> SUFFICES ASSUME TypeOK, CallInv, OwnerInv, EndingInv, NothingBuffered, [Next]_vars,
                    NEW t \in Task, run'[t] = "finished", NEW s \in Store,
                    NEW i \in 1..Len(buffer'[s])
             PROVE  ~OfTask(buffer'[s][i].key, t)
  BY Zenon DEF NothingBuffered, OfTask
<1>1. CASE CleanUp
  <2>1. buffer'[s] = <<>>
    BY <1>1, Zenon DEF CleanUp, EndingInv
  <2> QED BY <2>1, SMT
<1>2. CASE run[t] = "finished"
  <2>1. \A j \in 1..Len(buffer[s]) : ~OfTask(buffer[s][j].key, t)
    BY <1>2, Zenon DEF NothingBuffered
  <2>2. CASE buffer'[s] \in {buffer[s], <<>>} BY <2>1, <2>2, SMT
  <2>3. CASE Save
    <3>1. PICK r \in call.todo :
            r \in Rec /\ buffer' = [x \in Store |-> Append(buffer[x], r)]
      BY <2>3, SaveIs
    <3>2. buffer[s] \in Seq(Rec) /\ buffer'[s] = Append(buffer[s], r)
      BY <3>1, Zenon DEF TypeOK
    <3>3. CASE i \in 1..Len(buffer[s])
      <4>1. buffer'[s][i] = buffer[s][i] BY <3>1, <3>2, <3>3, SMT
      <4> QED BY <2>1, <3>3, <4>1
    <3>4. CASE i \notin 1..Len(buffer[s])
      <4>1. buffer'[s][i] = r BY <3>1, <3>2, <3>4, SMT
      <4> QED BY <1>2, <4>1, FinishedIdle
    <3> QED BY <3>3, <3>4
  <2>4. CASE FlushStore BY <2>2, <2>4, FlushStoreIs
  <2>5. CASE RefuseBatch BY <2>2, <2>5, Zenon DEF RefuseBatch
  <2> QED BY <2>2, <2>3, <2>4, <2>5, NoWrite, Zenon DEF Next, CallStep
<1> QED BY <1>1, <1>2, OnlyCleanUpFinishes

\* A fill is kept when its handler returns: its run goes on, and the ledger has
\* its trade.
LEMMA NewlyKept ==
  ASSUME TypeOK, CallInv, OwnerInv, [Next]_vars, NEW e \in kept', e \notin kept
  PROVE  /\ e \in Event /\ ledger'[TradeOf[e]] # None
         /\ run'[TaskOf[TradeOf[e]]] = "running"
<1>1. ASSUME e = call.event, call.event # None
      PROVE  /\ e \in Event /\ run[TaskOf[TradeOf[e]]] = "running"
             /\ "ledger" \notin Stage => ledger[TradeOf[e]] # None
  <2>1. e \in Event BY <1>1, CallTyped, SMT DEF Call
  <2> QED BY <1>1, <2>1, Zenon DEF OwnerInv
<1>2. CASE Save \/ FlushStore
  <2>1. /\ call' = Free /\ call.then = "free" /\ e = call.event /\ call.event # None
        /\ call.pc \in {"save", "flush"} /\ UNCHANGED <<ledger, run>>
    BY <1>2, OnwardIs, Zenon
  <2>2. "ledger" \notin Stage BY <2>1, SMT DEF Stage
  <2> QED BY <1>1, <2>1, <2>2
<1>3. CASE Fill
  <2>1. e = call.event BY <1>3, FillEffect, Zenon
  <2>2. call.event # None BY <1>3, FillEffect, ConstantsAssumption, SMT
  <2> QED BY <1>1, <1>3, <2>1, <2>2, FillEffect
<1>4. CASE Mark
  <2>1. call.pc = "mark" /\ UNCHANGED <<ledger, run>> BY <1>4, Zenon DEF Mark, task
  <2>2. call \in Call /\ [call EXCEPT !.then = "free"].event = call.event
    BY CallTyped, SMT DEF Call
  <2>3. e = call.event /\ call.event # None
    BY <1>4, <2>2, Zenon DEF Mark, Proceed
  <2>4. "ledger" \notin Stage BY <2>1, StageIs, SMT
  <2> QED BY <1>1, <2>1, <2>3, <2>4
<1>5. CASE kept' = kept BY <1>5
<1>6. CASE \/ RefuseBatch \/ RefuseMetric \/ Report \/ CleanUp \/ Flush \/ FinalFlush
           \/ UNCHANGED vars
  BY <1>5, <1>6, Zenon DEF RefuseBatch, RefuseMetric, Report, CleanUp, Flush,
     FinalFlush, book, vars
<1>7. CASE \E x \in Event : Handle(x) BY <1>5, <1>7, Zenon DEF Handle, book
<1>8. CASE \E t \in Task : OnTick(t) \/ Finish(t) \/ Start(t) \/ Leave(t)
  BY <1>5, <1>8, RunOwner, Zenon DEF OnTick, Finish, book
<1> QED BY <1>2, <1>3, <1>4, <1>6, <1>7, <1>8, Zenon DEF Next, CallStep

\* At the clean-up every record of the task is in memory and in every store.
LEMMA CleanUpWritten ==
  ASSUME TypeOK, CallInv, StoresFollow, OwnerInv, EndingInv, CleanUp,
         NEW t \in Task, t = call.by
  PROVE  /\ \A r \in FinalRecs(t) : memory[r.key] = r.val
         /\ \A s \in Store, k \in Key : view[s][k] = memory[k]
         /\ \A tr \in Known(t) : memory[<<"trade", tr>>] = Summary(tr)
         /\ memory[<<"task", t>>] = Total(Known(t))
<1>1. call.pc = "cleanup" BY Zenon DEF CleanUp
<1>2. Ending /\ call.todo = {} BY <1>1, EndingIs, StageIs
<1>3. \A r \in FinalRecs(t) : memory[r.key] = r.val BY <1>2, Zenon DEF EndingInv
<1>4. \A s \in Store, k \in Key : view[s][k] = memory[k]
  <2> TAKE s \in Store, k \in Key
  <2>1. buffer[s] = <<>> BY <1>1, Zenon DEF EndingInv
  <2>2. {i \in 1..Len(<<>>) : <<>>[i].key = k} = {} BY SMT
  <2>3. Follows(view[s], <<>>, k, memory[k]) BY <2>1, Zenon DEF StoresFollow
  <2> QED BY <2>2, <2>3, SMT DEF Follows
<1>5. ASSUME NEW tr \in Known(t)
      PROVE  memory[<<"trade", tr>>] = Summary(tr)
  <2>1. TradeRec(tr) \in FinalRecs(t) BY Zenon DEF FinalRecs
  <2>2. TradeRec(tr).key = <<"trade", tr>> /\ TradeRec(tr).val = Summary(tr)
    BY Zenon DEF TradeRec
  <2> QED BY <1>3, <2>1, <2>2, Zenon
<1>6. memory[<<"task", t>>] = Total(Known(t))
  <2> DEFINE r == [key |-> <<"task", t>>, val |-> Total(Known(t))]
  <2>1. r \in FinalRecs(t) BY Zenon DEF FinalRecs
  <2>2. r.key = <<"task", t>> /\ r.val = Total(Known(t)) OBVIOUS
  <2> QED BY <1>3, <2>1, <2>2, Zenon
<1> QED BY <1>3, <1>4, <1>5, <1>6

\* A trade that is known stays known.
LEMMA KnownStays ==
  ASSUME TypeOK, CallInv, StoresFollow, OwnerInv, EndingInv, [Next]_vars,
         NEW tr \in Trade, Summary(tr) # None
  PROVE  Summary(tr)' # None
<1> DEFINE k == <<"trade", tr>>
<1>0. k \in Key BY SMT DEF Key
<1>1. ASSUME memory[k] # None PROVE memory'[k] # None
  <2>1. CASE Save
    <3>1. PICK r \in call.todo : r \in Rec /\ memory' = [memory EXCEPT ![r.key] = r.val]
      BY <2>1, SaveIs
    <3>2. r.val # None BY <3>1, ConstantsAssumption, SMT DEF Rec
    <3>3. memory \in [Key -> Value \cup {None}] BY Zenon DEF TypeOK, Shown
    <3> HIDE DEF k
    <3> QED BY <1>0, <1>1, <3>1, <3>2, <3>3, SMT
  <2>2. CASE FlushStore BY <1>1, <2>2, FlushStoreIs, Zenon
  <2>3. CASE RefuseBatch BY <1>1, <2>3, Zenon DEF RefuseBatch
  <2>4. CASE UNCHANGED memory BY <1>1, <2>4, Zenon
  <2> QED BY <2>1, <2>2, <2>3, <2>4, NoWrite, Zenon DEF Next, CallStep
<1>2. ASSUME ledger[tr] # None PROVE ledger'[tr] # None \/ memory'[k] # None
  <2>1. CASE CleanUp /\ Cleanup
    <3>1. ledger' = [x \in Trade |-> IF TaskOf[x] = call.by THEN None ELSE ledger[x]]
      BY <2>1, Zenon DEF CleanUp
    <3>2. CASE TaskOf[tr] # call.by BY <1>2, <3>1, <3>2, Zenon
    <3>3. CASE TaskOf[tr] = call.by
      <4>1. PICK t \in Task : t = call.by /\ TaskOf[tr] = t
        BY <3>3, ConstantsAssumption, Zenon
      <4>2. tr \in Known(t) BY <1>2, <4>1, Zenon DEF Known, Summary
      <4>3. memory[k] = Summary(tr) BY <2>1, <4>1, <4>2, CleanUpWritten, Zenon
      <4>4. Summary(tr) # None BY <1>2, Zenon DEF Summary
      <4> QED BY <1>1, <4>3, <4>4
    <3> QED BY <3>2, <3>3
  <2>2. CASE CleanUp /\ ~Cleanup BY <1>2, <2>2, Zenon DEF CleanUp
  <2>3. CASE Fill BY <1>2, <2>3, FillEffect
  <2>4. CASE Save \/ FlushStore BY <1>2, <2>4, OnwardIs, Zenon
  <2>5. CASE UNCHANGED ledger BY <1>2, <2>5, Zenon
  <2>6. CASE \/ RefuseBatch \/ RefuseMetric \/ Report \/ Mark \/ Flush \/ FinalFlush
             \/ UNCHANGED vars
    BY <2>5, <2>6, Zenon DEF RefuseBatch, RefuseMetric, Report, Mark, Flush,
       FinalFlush, book, vars
  <2>7. CASE \E x \in Event : Handle(x) BY <2>5, <2>7, Zenon DEF Handle, book
  <2>8. CASE \E t \in Task : OnTick(t) \/ Finish(t) \/ Start(t) \/ Leave(t)
    BY <2>5, <2>8, RunOwner, Zenon DEF OnTick, Finish, book
  <2> QED BY <2>1, <2>2, <2>3, <2>4, <2>6, <2>7, <2>8, Zenon DEF Next, CallStep
<1>3. ledger[tr] # None \/ memory[k] # None BY Zenon DEF Summary
<1>4. ledger'[tr] # None \/ memory'[k] # None BY <1>1, <1>2, <1>3
<1> QED BY <1>4, Zenon DEF Summary

LEMMA KnownStep ==
  TypeOK /\ CallInv /\ StoresFollow /\ OwnerInv /\ EndingInv /\ KeptKnown /\ [Next]_vars
    => KeptKnown'
<1> SUFFICES ASSUME TypeOK, CallInv, StoresFollow, OwnerInv, EndingInv, KeptKnown,
                    [Next]_vars, NEW e \in kept'
             PROVE  Summary(TradeOf[e])' # None
  BY Zenon DEF KeptKnown
<1>1. CASE e \in kept
  <2>1. PICK tr \in Trade : tr = TradeOf[e]
    BY <1>1, ConstantsAssumption, SMT DEF TypeOK
  <2>2. Summary(tr) # None BY <1>1, <2>1, Zenon DEF KeptKnown
  <2>3. Summary(tr)' # None BY <2>2, KnownStays
  <2> QED BY <2>1, <2>3, Zenon
<1>2. CASE e \notin kept
  <2>1. ledger'[TradeOf[e]] # None BY <1>2, NewlyKept
  <2> QED BY <2>1, Zenon DEF Summary
<1> QED BY <1>1, <1>2

-----------------------------------------------------------------------------
\* The end of a task: what is stored.

\* The trades memory has of t, and the two parts of FinishedStored.
Recorded(t) == {tr \in Trade : TaskOf[tr] = t /\ memory[<<"trade", tr>>] # None}
FinalKeys(t) ==
  {<<"task", t>>} \cup ({"trade"} \X Recorded(t)) \cup ({"cycle"} \X MemoryCycles(t))
RecordedTotal(t) ==
  [trades |-> Recorded(t),
   open |-> {tr \in Recorded(t) : memory[<<"trade", tr>>].closed = None},
   realized |-> {memory[<<"trade", tr>>].closed : tr \in Recorded(t)} \ {None}]
StoredAs(t) ==
  /\ \A s \in Store : \A k \in FinalKeys(t) : view[s][k] = memory[k]
  /\ memory[<<"task", t>>] = RecordedTotal(t)

LEMMA FinishedStoredIs ==
  FinishedStored <=> \A t \in Task : run[t] = "finished" => StoredAs(t)
BY Zenon DEF FinishedStored, StoredAs, FinalKeys, RecordedTotal, Recorded

LEMMA WrittenElsewhere ==
  ASSUME NEW q, NEW I \in SUBSET (1..Len(q)), NEW v, NEW k \in Key,
         \A i \in 1..Len(q) : q[i].key # k
  PROVE  Written(q, I, v)[k] = v[k]
BY Zenon DEF Written

\* Nothing of a finished task is written.
LEMMA FinishedFrame ==
  ASSUME TypeOK, CallInv, OwnerInv, NothingBuffered, [Next]_vars,
         NEW t \in Task, run[t] = "finished", NEW k \in Key, OfTask(k, t)
  PROVE  memory'[k] = memory[k] /\ \A s \in Store : view'[s][k] = view[s][k]
<1>1. \A s \in Store : \A i \in 1..Len(buffer[s]) : buffer[s][i].key # k
  BY Zenon DEF NothingBuffered
<1>2. CASE Save
  <2>1. PICK r \in call.todo :
          /\ r \in Rec /\ memory' = [memory EXCEPT ![r.key] = r.val]
          /\ view' = view
    BY <1>2, SaveIs
  <2>2. r.key # k BY <2>1, FinishedIdle, Zenon
  <2>3. memory \in [Key -> Value \cup {None}] BY Zenon DEF TypeOK, Shown
  <2> QED BY <2>1, <2>2, <2>3, Zenon
<1>3. CASE FlushStore
  <2>1. memory' = memory BY <1>3, FlushStoreIs
  <2>2. ASSUME NEW s \in Store PROVE view'[s][k] = view[s][k]
    <3>1. CASE view'[s] = view[s] BY <3>1
    <3>2. CASE view'[s] = Written(buffer[s], 1..Len(buffer[s]), view[s])
      <4>1. Written(buffer[s], 1..Len(buffer[s]), view[s])[k] = view[s][k]
        BY <1>1, WrittenElsewhere
      <4> QED BY <3>2, <4>1
    <3> QED BY <1>3, <3>1, <3>2, FlushStoreIs
  <2> QED BY <2>1, <2>2
<1>4. CASE RefuseBatch
  <2>1. call.at \in Store BY CallTyped, SMT DEF Call
  <2>2. PICK I \in Landed(call.at) :
          view' = [view EXCEPT ![call.at] = Written(buffer[call.at], I, @)]
    BY <1>4, Zenon DEF RefuseBatch
  <2>3. Written(buffer[call.at], I, view[call.at])[k] = view[call.at][k]
    BY <1>1, <2>1, <2>2, LandedType, WrittenElsewhere
  <2>4. ASSUME NEW s \in Store PROVE view'[s][k] = view[s][k]
    <3>1. view \in [Store -> Shown] BY Zenon DEF TypeOK
    <3>2. CASE s = call.at BY <2>1, <2>2, <2>3, <3>1, <3>2, Zenon
    <3>3. CASE s # call.at BY <2>1, <2>2, <3>1, <3>3, Zenon
    <3> QED BY <3>2, <3>3
  <2>5. memory' = memory BY <1>4, Zenon DEF RefuseBatch
  <2> QED BY <2>4, <2>5
<1>5. CASE UNCHANGED <<memory, buffer, view>> BY <1>5, Zenon
<1> QED BY <1>2, <1>3, <1>4, <1>5, NoWrite, Zenon DEF Next, CallStep

LEMMA FinalKeysOf ==
  ASSUME NEW t \in Task
  PROVE  /\ <<"task", t>> \in Key /\ OfTask(<<"task", t>>, t)
         /\ \A tr \in Trade : TaskOf[tr] = t =>
              <<"trade", tr>> \in Key /\ OfTask(<<"trade", tr>>, t)
         /\ \A c \in Cycle : (\E tr \in Trade : CycleOf[tr] = c /\ TaskOf[tr] = t) =>
              <<"cycle", c>> \in Key /\ OfTask(<<"cycle", c>>, t)
<1>1. <<"task", t>> \in Key /\ OfTask(<<"task", t>>, t) BY SMT DEF Key, OfTask
<1>2. \A tr \in Trade : <<"trade", tr>> \in Key /\ <<"trade", tr>>[1] = "trade"
                        /\ <<"trade", tr>>[2] = tr
  BY SMT DEF Key
<1>3. \A c \in Cycle : <<"cycle", c>> \in Key /\ <<"cycle", c>>[1] = "cycle"
                       /\ <<"cycle", c>>[2] = c
  BY SMT DEF Key
<1> QED BY <1>1, <1>2, <1>3, Zenon DEF OfTask

\* A key of FinalKeys, by its kind.
LEMMA FinalKeyKind ==
  ASSUME NEW t \in Task, NEW k \in FinalKeys(t)
  PROVE  k \in Key /\ OfTask(k, t)
<1>1. CASE k = <<"task", t>> BY <1>1, FinalKeysOf
<1>2. CASE \E tr \in Recorded(t) : k = <<"trade", tr>>
  BY <1>2, FinalKeysOf, Zenon DEF Recorded
<1>3. CASE \E c \in MemoryCycles(t) : k = <<"cycle", c>>
  BY <1>3, FinalKeysOf, Zenon DEF MemoryCycles
<1>4. k \in {"trade"} \X Recorded(t) => \E tr \in Recorded(t) : k = <<"trade", tr>>
  BY SMT
<1>5. k \in {"cycle"} \X MemoryCycles(t) => \E c \in MemoryCycles(t) : k = <<"cycle", c>>
  BY SMT
<1> QED BY <1>1, <1>2, <1>3, <1>4, <1>5, Zenon DEF FinalKeys

\* A task that stays finished stays stored.
LEMMA StaysStored ==
  ASSUME TypeOK, CallInv, OwnerInv, NothingBuffered, [Next]_vars,
         NEW t \in Task, run[t] = "finished", StoredAs(t)
  PROVE  StoredAs(t)'
<1>1. \A tr \in Trade : TaskOf[tr] = t => memory'[<<"trade", tr>>] = memory[<<"trade", tr>>]
  BY FinalKeysOf, FinishedFrame
<1>2. Recorded(t)' = Recorded(t) BY <1>1, Zenon DEF Recorded
<1>3. MemoryCycles(t)' = MemoryCycles(t)
  <2>1. ASSUME NEW c \in Cycle, NEW tr \in Trade, CycleOf[tr] = c, TaskOf[tr] = t
        PROVE  memory'[<<"cycle", c>>] = memory[<<"cycle", c>>]
    BY <2>1, FinalKeysOf, FinishedFrame
  <2> QED BY <2>1, Zenon DEF MemoryCycles
<1>4. FinalKeys(t)' = FinalKeys(t) BY <1>2, <1>3, Zenon DEF FinalKeys
<1>5. RecordedTotal(t)' = RecordedTotal(t)
  <2>1. \A tr \in Recorded(t) : memory'[<<"trade", tr>>] = memory[<<"trade", tr>>]
    BY <1>1, Zenon DEF Recorded
  <2>2. {tr \in Recorded(t) : memory[<<"trade", tr>>].closed = None}' =
          {tr \in Recorded(t) : memory[<<"trade", tr>>].closed = None}
    BY <1>2, <2>1, Zenon
  <2>3. {memory[<<"trade", tr>>].closed : tr \in Recorded(t)}' =
          {memory[<<"trade", tr>>].closed : tr \in Recorded(t)}
    <3>1. \A x : x \in {memory[<<"trade", tr>>].closed : tr \in Recorded(t)}' <=>
                 \E tr \in Recorded(t)' : x = memory'[<<"trade", tr>>].closed
      BY Zenon
    <3>2. \A x : x \in {memory[<<"trade", tr>>].closed : tr \in Recorded(t)} <=>
                 \E tr \in Recorded(t) : x = memory[<<"trade", tr>>].closed
      BY Zenon
    <3> QED BY <1>2, <2>1, <3>1, <3>2, Zenon
  <2> QED BY <1>2, <2>2, <2>3, Zenon DEF RecordedTotal
<1>6. memory'[<<"task", t>>] = memory[<<"task", t>>]
  BY FinalKeysOf, FinishedFrame
<1>7. ASSUME NEW s \in Store, NEW k \in FinalKeys(t)
      PROVE  view'[s][k] = memory'[k]
  <2>1. k \in Key /\ OfTask(k, t) BY FinalKeyKind
  <2>2. memory'[k] = memory[k] /\ view'[s][k] = view[s][k]
    BY <2>1, FinishedFrame
  <2> QED BY <2>2, Zenon DEF StoredAs
<1> QED BY <1>4, <1>5, <1>6, <1>7, Zenon DEF StoredAs

\* The clean-up ends a task whose trades in memory are those known of it.
LEMMA CleanUpKnown ==
  ASSUME TypeOK, CallInv, StoresFollow, OwnerInv, EndingInv, CleanUp,
         NEW t \in Task, t = call.by
  PROVE  Recorded(t) = Known(t) /\ Total(Known(t)) = RecordedTotal(t)
<1>1. \A tr \in Known(t) : /\ tr \in Trade /\ TaskOf[tr] = t /\ Summary(tr) # None
                           /\ memory[<<"trade", tr>>] = Summary(tr)
  BY CleanUpWritten, Zenon DEF Known
<1>2. \A tr \in Trade : memory[<<"trade", tr>>] # None => Summary(tr) # None
  BY Zenon DEF Summary
<1>3. Recorded(t) = Known(t)
  <2>1. \A tr : tr \in Recorded(t) => tr \in Known(t)
    BY <1>2, Zenon DEF Recorded, Known
  <2>2. \A tr : tr \in Known(t) => tr \in Recorded(t)
    BY <1>1, Zenon DEF Recorded
  <2> QED BY <2>1, <2>2, Zenon
<1>4. {tr \in Known(t) : Summary(tr).closed = None} =
        {tr \in Recorded(t) : memory[<<"trade", tr>>].closed = None}
  BY <1>1, <1>3, Zenon
<1>5. {Summary(tr).closed : tr \in Known(t)} =
        {memory[<<"trade", tr>>].closed : tr \in Recorded(t)}
  <2>1. \A x : x \in {Summary(tr).closed : tr \in Known(t)} <=>
               \E tr \in Known(t) : x = Summary(tr).closed
    BY Zenon
  <2>2. \A x : x \in {memory[<<"trade", tr>>].closed : tr \in Recorded(t)} <=>
               \E tr \in Recorded(t) : x = memory[<<"trade", tr>>].closed
    BY Zenon
  <2>3. \A tr \in Known(t) : Summary(tr).closed = memory[<<"trade", tr>>].closed
    BY <1>1
  <2>4. \A x : (\E tr \in Known(t) : x = Summary(tr).closed) <=>
               (\E tr \in Known(t) : x = memory[<<"trade", tr>>].closed)
    BY <2>3, Zenon
  <2>5. \A x : (\E tr \in Known(t) : x = memory[<<"trade", tr>>].closed) <=>
               (\E tr \in Recorded(t) : x = memory[<<"trade", tr>>].closed)
    BY <1>3, Zenon
  <2> QED BY <2>1, <2>2, <2>4, <2>5, Zenon
<1> QED BY <1>3, <1>4, <1>5, Zenon DEF Total, RecordedTotal

LEMMA CleanUpStored ==
  ASSUME TypeOK, CallInv, StoresFollow, OwnerInv, EndingInv, CleanUp,
         NEW t \in Task, t = call.by
  PROVE  StoredAs(t)'
<1>1. UNCHANGED <<memory, view>> BY Zenon DEF CleanUp, disk
<1>2. \A s \in Store : \A k \in FinalKeys(t) : view[s][k] = memory[k]
  BY FinalKeyKind, CleanUpWritten, Zenon
<1>3. memory[<<"task", t>>] = RecordedTotal(t)
  BY CleanUpWritten, CleanUpKnown
<1>4. StoredAs(t) BY <1>2, <1>3, Zenon DEF StoredAs
<1> QED BY <1>1, <1>4, Zenon
          DEF StoredAs, FinalKeys, RecordedTotal, Recorded, MemoryCycles

LEMMA StoredStep ==
  TypeOK /\ CallInv /\ StoresFollow /\ OwnerInv /\ EndingInv /\ NothingBuffered
    /\ FinishedStored /\ [Next]_vars => FinishedStored'
<1> SUFFICES ASSUME TypeOK, CallInv, StoresFollow, OwnerInv, EndingInv,
                    NothingBuffered, FinishedStored, [Next]_vars,
                    NEW t \in Task, run'[t] = "finished"
             PROVE  StoredAs(t)'
  <2>1. FinishedStored' <=> \A t \in Task : run'[t] = "finished" => StoredAs(t)'
    BY Zenon DEF FinishedStored, StoredAs, FinalKeys, RecordedTotal, Recorded
  <2> QED BY <2>1, Zenon
<1>1. CASE run[t] = "finished"
  <2>1. StoredAs(t) BY <1>1, FinishedStoredIs
  <2> QED BY <1>1, <2>1, StaysStored
<1>2. CASE run[t] # "finished"
  BY <1>2, OnlyCleanUpFinishes, CleanUpStored
<1> QED BY <1>1, <1>2

\* A kept fill is of a running task when it is kept, and known from then on.
LEMMA CountedStep ==
  TypeOK /\ CallInv /\ StoresFollow /\ OwnerInv /\ EndingInv /\ NothingBuffered
    /\ KeptKnown /\ FillsCounted /\ [Next]_vars => FillsCounted'
<1> SUFFICES ASSUME TypeOK, CallInv, StoresFollow, OwnerInv, EndingInv,
                    NothingBuffered, KeptKnown, FillsCounted, [Next]_vars,
                    NEW e \in kept', run'[TaskOf[TradeOf[e]]] = "finished"
             PROVE  TradeOf[e] \in memory'[<<"task", TaskOf[TradeOf[e]]>>].trades
  BY Zenon DEF FillsCounted
<1>0. e \in kept
  <2>1. ASSUME e \notin kept PROVE FALSE
    <3>1. run'[TaskOf[TradeOf[e]]] = "running" BY <2>1, NewlyKept
    <3> QED BY <3>1, SMT
  <2> QED BY <2>1
<1>1. PICK tr \in Trade, t \in Task : tr = TradeOf[e] /\ t = TaskOf[tr]
  <2>1. e \in Event BY <1>0, Zenon DEF TypeOK
  <2> QED BY <2>1, ConstantsAssumption, Zenon
<1> DEFINE k == <<"task", t>>
<1>2. CASE run[t] = "finished"
  <2>1. memory'[k] = memory[k] BY <1>2, FinalKeysOf, FinishedFrame
  <2>2. tr \in memory[k].trades BY <1>0, <1>1, <1>2, Zenon DEF FillsCounted
  <2> QED BY <1>1, <2>1, <2>2, Zenon
<1>3. CASE run[t] # "finished"
  <2>1. CleanUp /\ t = call.by BY <1>1, <1>3, OnlyCleanUpFinishes, Zenon
  <2>2. Summary(tr) # None BY <1>0, <1>1, Zenon DEF KeptKnown
  <2>3. tr \in Known(t) BY <1>1, <2>2, Zenon DEF Known
  <2>4. memory[k] = Total(Known(t)) BY <2>1, CleanUpWritten
  <2>5. Total(Known(t)).trades = Known(t) BY Zenon DEF Total
  <2>6. memory'[k] = memory[k] BY <2>1, Zenon DEF CleanUp
  <2> QED BY <1>1, <2>3, <2>4, <2>5, <2>6, Zenon
<1> QED BY <1>2, <1>3

LEMMA InitFinish == Init => FinishInv
<1> SUFFICES ASSUME Init PROVE FinishInv OBVIOUS
<1>1. /\ call = Free /\ kept = {} /\ \A t \in Task : run[t] = "idle"
  BY Zenon DEF Init
<1>2. call.pc = "free" /\ call.then = "free" /\ call.by = None /\ call.todo = {}
      /\ call.event = None
  BY <1>1, SMT DEF Free
<1>3. ~Ending /\ "cleanup" \notin Stage BY <1>2, SMT DEF Ending, Stage
<1>4. \A t \in Task : run[t] \notin {"finishing", "finished"}
  <2>1. "idle" \notin {"finishing", "finished"} BY SMT
  <2> QED BY <1>1, <2>1, Zenon
<1>5. OwnerInv
  <2>1. \A t \in Task : t # None BY ConstantsAssumption, SMT
  <2> QED BY <1>2, <1>3, <1>4, <2>1, SMT DEF OwnerInv
<1>6. EndingInv BY <1>2, <1>3, SMT DEF EndingInv
<1>7. NothingBuffered BY <1>4, Zenon DEF NothingBuffered
<1>8. KeptKnown /\ FillsCounted BY <1>1, Zenon DEF KeptKnown, FillsCounted
<1>9. FinishedStored BY <1>4, Zenon DEF FinishedStored
<1> QED BY <1>5, <1>6, <1>7, <1>8, <1>9 DEF FinishInv

LEMMA FinishStep == IInv /\ FinishInv /\ [Next]_vars => FinishInv'
BY OwnerStep, EndingStep, BufferedStep, KnownStep, StoredStep, CountedStep, Zenon
   DEF FinishInv, IInv, Support

\* on_task_finished, from its first record to its clean-up: what it still has
\* to save, what is buffered and what is known of the task.
THEOREM FinishInvariance == Spec => []FinishInv
<1>1. Init => FinishInv BY InitFinish
<1>2. IInv /\ FinishInv /\ [Next]_vars => FinishInv' BY FinishStep
<1> QED BY <1>1, <1>2, Invariance, PTL DEF Spec

\* A task that finished is in every store with the totals of its trades,
\* whatever other tasks record afterwards and whatever batches are refused.
THEOREM FinishedStoredHolds == Spec => []FinishedStored
<1>1. FinishInv => FinishedStored BY Zenon DEF FinishInv
<1> QED BY <1>1, FinishInvariance, PTL

\* A fill whose handler returned is in the totals of every later finish.
THEOREM FillsCountedHolds == Spec => []FillsCounted
<1>1. FinishInv => FillsCounted BY Zenon DEF FinishInv
<1> QED BY <1>1, FinishInvariance, PTL
=============================================================================
