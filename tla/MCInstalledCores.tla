-------------------------- MODULE MCInstalledCores --------------------------
(* Instances of InstalledCores for TLC: one source of one core. *)
EXTENDS InstalledCores, TLC

SameCore == [s \in Sources |-> CHOOSE c \in Cores : TRUE]

FileSymmetry == Permutations(Versions) \cup Permutations(Hashes)
=============================================================================
