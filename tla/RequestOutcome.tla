---------------------------- MODULE RequestOutcome ----------------------------
(***************************************************************************)
(* What the event bus promises about a strategy request that needs a       *)
(* broker: it waits from its publication on, and stops waiting when it is  *)
(* answered or when one diagnostic says that it was not.  An answer that   *)
(* comes after the diagnostic is still passed on.                          *)
(***************************************************************************)
CONSTANT Request

VARIABLES waiting, answered, diagnosed

vars == <<waiting, answered, diagnosed>>

Init == waiting = {} /\ answered = {} /\ diagnosed = {}

Issue(q) ==
  /\ q \notin waiting \cup answered \cup diagnosed
  /\ waiting' = waiting \cup {q}
  /\ UNCHANGED <<answered, diagnosed>>

Answer(q) ==
  /\ q \in waiting \cup diagnosed
  /\ answered' = answered \cup {q}
  /\ waiting' \in {waiting, waiting \ {q}}
  /\ UNCHANGED diagnosed

Diagnose(q) ==
  /\ q \in waiting
  /\ diagnosed' = diagnosed \cup {q}
  /\ waiting' = waiting \ {q}
  /\ UNCHANGED answered

Next == \E q \in Request : Issue(q) \/ Answer(q) \/ Diagnose(q)

Spec == Init /\ [][Next]_vars
=============================================================================
