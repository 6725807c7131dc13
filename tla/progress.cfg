CONSTANTS
  anna = anna
  boris = boris
  LastUpdate = 4
  Dialogue <- TwoDialogues
  NoPeer = NoPeer
  NoPosition = NoPosition
  DedupSize = 2
  LockLimit = 2
  MaxFaults = 1
  MaxBatches = 2
  t1 = t1
  t2 = t2
  w1 = w1
  w2 = w2
  w3 = w3
  r1 = r1
  r2 = r2
  Tutors = {t1, t2}
  MaxChanges = 3
  MaxLapses = 1
  Waiters = {w1, w2, w3}
  Lives = 2
  Requests = {r1, r2}
  Retries = 1
  MaxClients = 2
  MaxRotations = 1
  MaxRecognitions = 2
  MaxSlips = 1
  LastTelegram = 2
  MaxErrors = 2
  MaxEnds = 1
  Attempts = 2
  MaxBreaks = 3
  bot = bot
  panel = panel
  someone = someone
  Neighbours = {panel}
  Profiles = {someone}
  MaxCrashes = 1
SPECIFICATION ProgressSpec
INVARIANTS
  NothingSkipped
  DialogueOneByOne
  RepeatsFarApart
  SharedSafely
  MessagesKept
  UpgradeHolds
PROPERTIES
  EventuallyHandled
  EventuallySaved
  NewestCookies
  EventuallyDone
\* The changes, calls and recognitions are bounded.
CHECK_DEADLOCK FALSE
