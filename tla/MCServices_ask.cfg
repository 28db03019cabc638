INIT Init
NEXT Next
CONSTANTS
  Served = {"approval"}
  shell = shell
  ghost = ghost
  ka = ka
  kb = kb
  NoKey = NoKey
  Tool = {shell, ghost}
  Registered = {shell}
  Key = {ka, kb}
  Requests <- Mixed
  Batches <- UpToFive
  h1 = h1
  h2 = h2
  e1 = e1
  e2 = e2
  c1 = c1
  c2 = c2
  c3 = c3
  l1 = l1
  l2 = l2
  real = real
  NoCell = NoCell
  Torn = Torn
  NoTail = NoTail
  Entry = {e1, e2}
  Handle = {h1, h2}
  Link = {l1, l2}
  Cell = {c1, c2, c3}
  Followed = {}
  Flights = TRUE
  p1 = p1
  p2 = p2
  single = single
  pair = pair
  reader1 = reader1
  writer1 = writer1
  writer2 = writer2
  Path = {p1, p2}
  Query = {single, pair}
  Touches <- WhatIsRead
  Writes = {{}, {p2}}
  Reader = {reader1}
  Writer = {writer1, writer2}
  TtlTurns = 1
  NoEntry = NoEntry
  MaxWritten = 2
  MaxTurn = 1
  MaxRun = 1
  Limits <- AFewLimits
  NoLimit = NoLimit
  SoftPart = 8000
  Answers <- AFewAnswers
  MaxCount = 7
  MaxTicks = 2
  MaxTurns = 3
  MaxRuns = 2
  turn1 = turn1
  turn2 = turn2
  Turn = {turn1, turn2}
  Capacity = 2
  Parts = 2
  MaxWait = 2
  Deadlines = {3, 9}
  MaxNow = 4
  a1 = a1
  a2 = a2
  a3 = a3
  Ask = {a1, a2, a3}
  QueueSize = 1
  AskTimeout = FALSE
  s1 = s1
  s2 = s2
  t1 = t1
  t2 = t2
  Sink = {s1, s2}
  Caller = {t1, t2}
  Handles <- Uses
  QueueLimit = 1
  MaxRecords = 2
  n1 = n1
  n2 = n2
  i1 = i1
  i2 = i2
  i3 = i3
  j1 = j1
  j2 = j2
  FName = {n1, n2}
  Inode = {i1, i2, i3}
  NoInode = NoInode
  Job = {j1, j2}
  Policies = {"Unrestricted"}
  Edits <- OnePair
  MaxVersion = 3
  cx = cx
  CallId = {cx}
  Seeds <- Openings
  Lengths = {1, 4}
  PerToken = 2
  PreserveRecent = 1
  MinMessages = 3
  SummaryPart = 50
  PinLength = 1
  Landings = {0, 5, 8}
  Window = 14
  MaxSaid = 6
  Dialects = {"openai", "gemini", "anthropic", "converse"}
  Resumes = FALSE
  NoIndex = NoIndex
  MaxFragments = 4
  MaxBlocks = 2
SYMMETRY Alike
INVARIANTS
  NoneParksOnTheGone
CHECK_DEADLOCK FALSE
