SPECIFICATION Spec
CONSTANTS
  Sources = {s1}
  Cores = {singbox}
  CoreOf <- SameCore
  Versions = {v1, v2}
  Hashes = {h1, h2}
  Stable = Stable
  Faults = {"write", "verify", "compile", "crash"}
  None = None
INVARIANTS FilesMatch
PROPERTIES PreviousKept
SYMMETRY FileSymmetry
