CONSTANTS
  one = one
  other = other
  everyone = everyone
  first = first
  second = second
  maths = maths
  art = art
  NoSchedule = NoSchedule
  Free = Free
  LastDate = 2
  Ahead = 1
  Lessons = {maths, art}
  Sources <- Both
  MaxChanges = 2
  MaxFaults = 1
SYMMETRY Symmetry
VIEW View
SPECIFICATION Spec
INVARIANTS
  OncePerDay
  QuietSite
PROPERTIES
  SubscribersKnowUnlessExcused
