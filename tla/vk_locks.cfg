CONSTANTS
  anna = anna
  boris = boris
  LastUpdate = 4
  Dialogue <- BusyDialogue
  NoPeer = NoPeer
  NoPosition = NoPosition
  DedupSize = 2
  LockLimit = 0
  MaxFaults = 0
  MaxBatches = 2
SPECIFICATION Spec
INVARIANTS
  DialogueOneByOne
