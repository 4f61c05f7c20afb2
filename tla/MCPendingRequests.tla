--------------------------- MODULE MCPendingRequests ---------------------------
(* Small instances of PendingRequests. *)
EXTENDS PendingRequestsInvariant, TLC

CONSTANTS t1, t2, q1, q2, q3, a1

Trading == [t \in Task |-> "trading"]

First == [q \in Request |-> t1]

\* Requests of one task that no definition names are alike.
Symmetry == Permutations({q1, q2})
=============================================================================
