\* A second copy fails while the first failure is rolled back.
CONSTANTS
  p1 = p1
  p2 = p2
  n1 = n1
  n2 = n2
  Paths = {p1, p2}
  Names = {n1, n2}
  NameOf <- TwoNames
  Contents = {Empty, text}
  Empty = Empty
  NoFile = NoFile
  Torn = Torn
  Kinds = {"write"}
  MaxStageFaults = 0
  MaxCopyFaults = 2
  MaxInterrupts = 0
SPECIFICATION StagingSpec
INVARIANTS
  OriginalsSurvive
