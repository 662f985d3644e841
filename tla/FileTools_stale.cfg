\* Two runners that read, write and edit two files another program changes as well.
CONSTANTS
  Agents = {a1, a2}
  Targets = {f}
  Outside = {}
  Parentless = {}
  x = x
  y = y
  Tokens = {x, y}
  FirstTexts <- OneText
  NewStrings <- Replacements
  NewTexts <- WrittenTexts
  SizeLimit = 2
  UsizeLimit = 3
  NoSuchFile = NoSuchFile
  Partial = Partial
  NoJob = NoJob
  MaxToolCalls = 2
  MaxDiskFaults = 0
  MaxShutdowns = 0
  MaxChanges = 1
SPECIFICATION FileToolsSpec
CHECK_DEADLOCK FALSE
PROPERTY WritesReplaceWhatWasRead
