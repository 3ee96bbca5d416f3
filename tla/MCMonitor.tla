------------------------------ MODULE MCMonitor ------------------------------
(***************************************************************************)
(* Small instances of Monitor for TLC.                                     *)
(***************************************************************************)
EXTENDS Monitor, TLC

CONSTANTS i1, i2, i3, r1, r2, r3

Symmetry == Permutations(Issues) \cup Permutations(Runs)

Approvals == {"approve"}

Machines == {"approve", "withdraw", "mark", "ghFails", "shutdown", "crash"}

Hands == {"approve", "withdraw", "run", "insist"}
=============================================================================
