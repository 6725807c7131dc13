CONSTANTS
  night = night
  admin = admin
  page = page
  editor = editor
  monday = monday
  g = g
  h = h
  Runs = {night, admin}
  Editors = {}
  Process <- Processes
  Days = {monday}
  Groups = {g, h}
  Sources <- TwiceG
  Taught <- OnlyG
  MaxFaults = 0
SPECIFICATION Spec
INVARIANTS
  CountedOnce
\* Every run ends.
CHECK_DEADLOCK FALSE
