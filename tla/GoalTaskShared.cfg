SPECIFICATION FairSpec
CONSTANTS
  g1 = g1
  g2 = g2
  source = source
  s1 = s1
  s2 = s2
  Calls <- AllCalls
  Source = source
  MaxChildren = 1
  MaxEdits = 1
  Generators = {g1, g2}
  WithFallback = {g1}
  Slugs = {s1, s2}
  MaxCommits = 1
INVARIANTS TypeOK SameNumberOnlyUnseen DraftMeansNoOffence OnlyTheAwaySurvive RecoveryIsHonest
PROPERTIES GenerationEnds
CHECK_DEADLOCK FALSE
