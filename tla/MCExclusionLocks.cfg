CONSTANTS
  g1 = g1
  g2 = g2
  s1 = s1
  c1 = c1
  NoProc = NoProc
  Procs = {g1, g2, s1, c1}
  Hung = {c1}
  ActorOf <- MCActorOf
  Entries = {"a", "b", "c", "d"}
  Refused = {"c"}
  Inline = {"d"}
  Plans <- MCPlans
  MaxJobs = 2
  MaxActs = 3
SPECIFICATION PartsSpec
INVARIANTS MutualExclusion StopHeeded
PROPERTIES RefusedByAHolder ImplementsExclusion StarterSettles NeverRetried EntrySettles
