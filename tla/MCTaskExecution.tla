--------------------------- MODULE MCTaskExecution ---------------------------
(* Small instances of TaskExecution. *)
EXTENDS TaskExecutionInvariant, TLC

CONSTANTS t1, t2, r1, r2, r3, c1, c2, s1, s2

Symmetry == Permutations(Run)

\* One task per kind.
Backtest == [t \in Task |-> "backtest"]
Trading == [t \in Task |-> "trading"]
Mixed == [t \in Task |-> IF t = t1 THEN "backtest" ELSE "trading"]

OwnStrategy == [t \in Task |-> IF t = t1 THEN s1 ELSE s2]
OneStrategy == [t \in Task |-> s1]

\* What each application thread calls.
Relauncher == [c \in Client |-> {"start", "restart", "timeout"}]
LaunchAndStop ==
  [c \in Client |-> IF c = c1 THEN {"start"} ELSE {"stop"}]
LaunchVersusShutdown ==
  [c \in Client |-> IF c = c1 THEN {"start", "restart", "timeout"}
                    ELSE {"pause", "shutdown"}]
LaunchAndControl ==
  [c \in Client |-> IF c = c1 THEN {"start", "restart", "timeout"}
                    ELSE {"pause", "stop"}]
=============================================================================
