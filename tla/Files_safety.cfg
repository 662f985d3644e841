\* Transcript: two operations on one session, three messages, two faults, a limit that is reached.
\* Staging area: writes and deletions of two files, a failing stage, two failing copies, an interruption.
\* Journal: recovery beside tasks that write and mark, a purge and a crash.
\* File tools: two runners, three paths, one of them outside and one without a directory.
\* Token store: two processes that open the store, store, delete and exit, with a failing disk.
CONSTANTS
  Tasks = {t1, t2}
  Sessions = {s1}
  LockIds = {l1, l2}
  PruneLimit = 1
  NoTask = NoTask
  NoLock = NoLock
  NoSession = NoSession
  Messages = {m1, m2, b1}
  Large = {b1}
  TranscriptLimit = 3
  NL = NL
  Piece = Piece
  NoMessage = NoMessage
  Droppable = {t1}
  MaxFaults = 2
  p1 = p1
  p2 = p2
  n1 = n1
  n2 = n2
  Paths = {p1, p2}
  Names = {n1, n2}
  NameOf <- TwoNames
  Contents = {Empty, text}
  Empty = Empty
  NoFile = NoFile
  Torn = Torn
  Kinds = {"write", "delete"}
  MaxStageFaults = 1
  MaxCopyFaults = 2
  MaxInterrupts = 1
  Transactions = {r1, r2}
  MaxLoads = 2
  MaxPurges = 1
  MaxCrashes = 1
  Agents = {a1, a2}
  Targets = {f, g, h}
  Outside = {g}
  Parentless = {h}
  x = x
  y = y
  Tokens = {x, y}
  FirstTexts <- OneText
  NewStrings <- Replacements
  NewTexts <- WrittenTexts
  SizeLimit = 2
  UsizeLimit = 3
  NoSuchFile = NoSuchFile
  Partial = Partial
  NoJob = NoJob
  MaxToolCalls = 2
  MaxDiskFaults = 1
  MaxShutdowns = 1
  MaxChanges = 1
  Processes = {q1, q2}
  MaxStores = 2
  MaxDeletes = 1
  MaxDiskErrors = 1
  SaltTries = 2
SPECIFICATION FilesSpec
CHECK_DEADLOCK FALSE
SYMMETRY Symmetry
INVARIANTS
  FilesTypeOK
  
  ReadersSeeWholeLines
  SizeLimitHolds
  OnlyFailedRestoresLose
  ResolvedStaysResolved
  FilesAreWhole
  
PROPERTIES
  
  FailureRestores
  LoadIsComplete
  OkCallIsInstalled
  ReadReturnsTheLines
