\* A sign-out and a message of a refresh.
SPECIFICATION Spec
CONSTANTS
  a = a
  b = b
  Tabs = {a, b}
  NoTab = NoTab
  MaxToken = 3
  MaxLate = 2
  MaxSignIns = 1
  MaxSignOuts = 1
  MaxQueue = 1
  MaxCrash = 1
  Environments = {TRUE}
INVARIANTS SignOutIsFinal
CHECK_DEADLOCK FALSE
