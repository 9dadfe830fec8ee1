---------------------------- MODULE MCStateStore ----------------------------
(* An instance of StateStore for TLC: two threads of the daemon, one of the CLI. *)
EXTENDS StateStore, TLC

CONSTANTS d1, d2, c1, daemon, cli

TwoProcesses == d1 :> daemon @@ d2 :> daemon @@ c1 :> cli

DaemonThreads == Permutations({d1, d2})
=============================================================================
