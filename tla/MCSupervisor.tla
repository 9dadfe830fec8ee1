---------------------------- MODULE MCSupervisor ----------------------------
(* Small instances of Supervisor for TLC.                                   *)
EXTENDS Supervisor, TLC

CONSTANTS A, B, v1, v2, p1, p2, c1, c2

\* Two configurations of one core version, or two versions.
SameBinary == [d \in {A, B} |-> v1]
TwoBinaries == (A :> v1) @@ (B :> v2)
OneBinary == [d \in {A} |-> v1]

\* A core that has run, and an installation that has not staged anything yet.
Settled == [DefaultDocument EXCEPT !.active = A, !.lastGood = A, !.core = TRUE]
Fresh == DefaultDocument
Halted == [Settled EXCEPT !.desired = "Stopped", !.state = "Stopped"]
OnlySettled == {Settled}
Either == {Settled, Fresh}
All == {Settled, Fresh, Halted}

ClientSymmetry == Permutations({c1, c2})
PidSymmetry == Permutations({p1, p2})
=============================================================================
