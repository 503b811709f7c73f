SPECIFICATION FairSampleSpec
CONSTANTS
  a = a
  Files = {f1, f2}
  Trails <- MCTrails
  Root <- MCRoot
  UpTo <- MCUpTo
  MaxSize = 1
  Nowhere = Nowhere
INVARIANTS
  SampleBracketed
PROPERTY
  WalkEndsEventually
