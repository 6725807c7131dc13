CONSTANTS
  night = night
  admin = admin
  page = page
  editor = editor
  monday = monday
  g = g
  h = h
  Runs = {night, admin, page}
  Editors = {editor}
  Process <- Processes
  Days = {monday}
  Groups = {g, h}
  Sources <- TwiceG
  Taught <- OnlyG
  MaxFaults = 2
  cleanup = cleanup
  counter = counter
  c1 = c1
  c2 = c2
  site = site
  sync = sync
  e1 = e1
  e2 = e2
  e3 = e3
  a = a
  u = u
  d1 = d1
  x1 = x1
  x2 = x2
  anna = anna
  ada = ada
  eva = eva
  A = A
  E = E
  JobIds = {cleanup, counter}
  Falling = {cleanup}
  MaxAttempts = 3
  Consumers = {c1, c2}
  MaxBreaks = 1
  Watched = {site, sync}
  MaxReports = 2
  MaxAlertFaults = 2
  Errors = {e1, e2, e3}
  Window = 2
  Hour = 4
  Budget = 2
  KnownLimit = 2
  Pruned = 1
  MaxClock = 6
  Skipped = {e3}
  MaxSpawned = 1
  ArchiveDays = {1, 2}
  BatchLimit = 1
  MaxSnapshots = 3
  MaxRestarts = 1
  Names = {a, u}
  Departments = {d1}
  Imported = {a}
  MaxTroubles = 1
  Teachers = {anna, ada, eva}
  Unlisted = {A, E}
  MaxMoves = 2
  MaxLosses = 3
  Classes = {a, u}
  Admins = {x1, x2}
  PhotoDays = {1, 2}
  MaxMishaps = 1
SPECIFICATION BackgroundSpec
INVARIANTS
  CountedTwiceOnlyIfExposed
  MarkedIsCounted
  FailuresAreKnown
  TimesRespected
  CatalogueHolds
PROPERTIES
  CountsStay
  OutageConfirmed
  NamesMatch
\* Runs end, and so do the bounds.
CHECK_DEADLOCK FALSE
