SPECIFICATION FairSpec
CONSTANTS
  d1 = d1
  d2 = d2
  n1 = n1
  n2 = n2
  Device = {d1, d2}
  Nwk = {n1, n2}
  Joins = 2
  Enrich = {e1, e2}
  SeqMod = 3
  Inbox = 1
  Scenarios <- MCScenarios
  None = None
  Garbled = Garbled
INVARIANTS OneInterview WaitersFreed OwnAnswer 
PROPERTIES Enriched
