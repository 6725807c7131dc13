SPECIFICATION Spec
CONSTANTS
  h1 = h1
  h2 = h2
  Platforms = {"all", "vk"}
  Audiences = {"all", "students"}
  Jobs = {"broadcast"}
  MaxTyped = 3
  MaxPages = 2
  Handlers = {h1, h2}
  MaxPhotos = 2
  MaxSheet = 3
  MaxStops = 1
  Tasks = {h1, h2}
  Addressees = {"all", "vk"}
  MaxTexts = 3
  MaxForms = 2
  MaxResets = 1
  VkUsers = {v}
  TelegramUsers = {w}
  Operators = {h1, h2}
  Bot = bot
  MaxReported = 3
  MaxAnswers = 2
  MaxBreakdowns = 1
  Charges = {c1, c2}
  Treasurers = {h1, h2}
  MaxSetbacks = 2
  MaxRows = 3
  Slots = {h1, h2}
  People = {h1, h2}
  Choices = {"g1", "g2"}
  MaxCommands = 3
  MaxFailures = 1
VIEW View
INVARIANTS
  DraftsHold
  ConfirmedOnce
  DoneAsTold
PROPERTIES
  ConfirmedAsShown
\* The bounds end a dialogue.
CHECK_DEADLOCK FALSE
