CONSTANTS
  isp = isp
  mto = mto
  ivanov = ivanov
  petrov = petrov
  hall = hall
  telegram = telegram
  vk = vk
  Users = {1, 2, 3}
  PlatformOf <- TwoPlatforms
  Keys = {isp, mto, ivanov, petrov, hall}
  TypeOf <- Types
  KeyOrder <- Alphabet
  University = {isp}
  PendingGroup <- MtoBecomesIsp
  PendingTeacher <- IvanovBecomesPetrov
  first = first
  second = second
  Tokens = {first, second}
  MaxAccounts = 5
  Starts <- FirstRows
  Budgets <- Mixes
SPECIFICATION Spec
INVARIANTS OneMainGroup NotifiedAsSubscribed IdentityHasAccount OneLinkPerToken
PROPERTY LinkKeepsAll
SYMMETRY AlikeTokens
CHECK_DEADLOCK FALSE
