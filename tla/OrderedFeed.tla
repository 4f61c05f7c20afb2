----------------------------- MODULE OrderedFeed -----------------------------
(* What DataSource.ticks and candles promise a consumer: the records of a     *)
(* feed come one by one in their order, each once and none left out, until    *)
(* the feed ends or breaks or the consumer leaves.                            *)
EXTENDS Naturals, Sequences

VARIABLES
  feed,    \* the records there are to give
  breaks,  \* whether the feed breaks after them
  given,   \* the records given
  state    \* "on", or how the feed ended

Init == given = <<>> /\ state = "on"

GiveNext ==
  /\ state = "on" /\ Len(given) < Len(feed)
  /\ given' = Append(given, feed[Len(given) + 1]) /\ UNCHANGED state

End ==
  /\ state = "on" /\ given = feed
  /\ state' = (IF breaks THEN "failed" ELSE "done") /\ UNCHANGED given

Leave == state = "on" /\ state' = "left" /\ UNCHANGED given

Serve == GiveNext \/ End
Next == (Serve \/ Leave) /\ UNCHANGED <<feed, breaks>>
Spec == /\ Init /\ [][Next]_<<feed, breaks, given, state>>
        /\ WF_<<feed, breaks, given, state>>(Serve /\ UNCHANGED <<feed, breaks>>)
=============================================================================
