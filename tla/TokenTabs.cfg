\* Two tabs, one session, with prompt and with late messages.
SPECIFICATION Spec
CONSTANTS
  a = a
  b = b
  Tabs = {a, b}
  NoTab = NoTab
  MaxToken = 4
  MaxLate = 2
  MaxSignIns = 1
  MaxSignOuts = 1
  MaxQueue = 1
  MaxCrash = 1
  Environments = {TRUE, FALSE}
INVARIANTS TypeOK RefusedForAReason QuietTabsAgree
PROPERTIES NoAnswerRestoresSession
SYMMETRY TabSymmetry
CHECK_DEADLOCK FALSE
