SPECIFICATION ScheduleSpec
CONSTANTS
  MaxNum = 2
  Times = {1}
  Callers = {api, set}
  Api = api
  NumWidth = 4
  Often = FALSE
INVARIANTS
    LockSound
    TableSound
PROPERTIES
    CallsEnd
