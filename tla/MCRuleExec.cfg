SPECIFICATION RuleSpec
CONSTANTS
  NumOut <- MCNumOut
  Delays = {0, 1}
  Durations = {1}
  Quits = {1}
  Windows = {1, 3}
  Day = 2
  Width = 3
INVARIANTS
    RoundsSound
PROPERTIES
    ListEnds
