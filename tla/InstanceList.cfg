SPECIFICATION Spec
CONSTANTS
  Stagings = {s1, s2}
  Groups = {g1}
  MaxBackoff = 2
  MaxId = 2
  MaxOutside = 1
  MaxRestarts = 1
  Gone = Gone
  Old = Old
  Back = Back
  NoId = NoId
  NoGroup = NoGroup
  NoFile = NoFile
SYMMETRY Alike
INVARIANTS ListMatchesDisk
PROPERTIES OverwrittenOnlyWhenAsked UndisturbedHitsTarget CommitShowsResult
\* The program may be over.
CHECK_DEADLOCK FALSE
