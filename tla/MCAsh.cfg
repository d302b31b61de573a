SPECIFICATION FairSpec
CONSTANTS
  c1 = c1
  c2 = c2
  None = None
  Caller = {c1, c2}
  Mod = 3
  Boot <- MCBoot
  Sessions <- MCSessions
INVARIANTS Matched InStep
PROPERTIES Finishes Promised
