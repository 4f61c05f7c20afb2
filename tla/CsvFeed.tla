------------------------------- MODULE CsvFeed -------------------------------
(* The records a CSV source has to give, from the whole of its files, and the *)
(* source as an implementation of OrderedFeed.                                *)
EXTENDS CsvSource, SequencesExt

VARIABLES
  feed,   \* the records to give
  breaks  \* whether the files break after them

\* The places of the rows of all files, with place 0 for a file that cannot be
\* opened.
Places ==
  FlattenSeq([f \in DOMAIN files |->
    IF ~files[f].opens THEN <<<<f, 0>>>>
    ELSE IF ~files[f].header THEN <<>>
    ELSE [i \in DOMAIN files[f].rows |-> <<f, i>>]])

RowAt(p) == files[p[1]].rows[p[2]]
RecordAt(p, wanted) == RecordOf(files[p[1]], RowAt(p), wanted)

BreaksAt(p, wanted) ==
  p[2] = 0 \/ (/\ ~RawSkips(files[p[1]], RowAt(p), wanted)
               /\ ~Parses(files[p[1]], RowAt(p)))
BreakOf(wanted) == SelectInSeq(Places, LAMBDA p : BreaksAt(p, wanted))

\* What is asked for of an instrument, before the sampling.
Kept(wanted) ==
  LET sound == IF BreakOf(wanted) = 0 THEN Places
               ELSE SubSeq(Places, 1, BreakOf(wanted) - 1)
      kept == SelectSeq(sound, LAMBDA p :
                ~RawSkips(files[p[1]], RowAt(p), wanted)
                /\ InRequest(RecordAt(p, wanted), wanted) /\ Passes(RecordAt(p, wanted)))
  IN [i \in DOMAIN kept |-> RecordAt(kept[i], wanted)]

\* The first record of each run of records of one bucket.
Sampled(kept) ==
  LET First(i) == \/ i = 1 \/ ~Samples(kept[i])
                  \/ Bucket(kept[i].time, Interval) # Bucket(kept[i - 1].time, Interval)
      places == SelectSeq([i \in DOMAIN kept |-> i], First)
  IN [j \in DOMAIN places |-> kept[places[j]]]

\* The instruments whose stream is reached: up to the first that breaks.
Reached == LET broken == SelectInSeq(Asked, LAMBDA w : BreakOf(w) # 0)
           IN IF broken = 0 THEN Len(Asked) ELSE broken
Feed == FlattenSeq([a \in 1..Reached |-> Sampled(Kept(Asked[a]))])

FeedInit ==
  /\ Init
  /\ feed = Feed /\ breaks = \E a \in DOMAIN Asked : BreakOf(Asked[a]) # 0
FeedSpec ==
  /\ FeedInit /\ [][Next /\ UNCHANGED <<feed, breaks>>]_<<vars, feed, breaks>>
  /\ WF_<<vars, feed, breaks>>(Pull /\ UNCHANGED <<feed, breaks>>)

\* The source gives exactly its feed, in its order, and says so when it breaks:
\* what reads row by row and remembers one bucket gives what the whole of the
\* files says, whatever rows are skipped, dropped or broken.
Served ==
  INSTANCE OrderedFeed WITH
    given <- out, state <- IF pc \in {"open", "read"} THEN "on" ELSE pc
Fed == Served!Spec
=============================================================================
