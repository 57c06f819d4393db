\* One connection, one timer: updates, saves, reverts, metadata, resumed sockets and hibernation.
SPECIFICATION Spec
CONSTANTS
  c1 = c1
  c2 = c2
  u1 = u1
  u2 = u2
  None = None
  Conns = {c1}
  Users = {u1}
  Timers = {"t"}
  Uses = {"hibernate", "join", "state", "save", "oversize", "metadata", "resume"}
  MaxPlayers = 9
  AuthTimeout = 1
  Heartbeat = 1
  ReconnectTimeout = 0
  SaveInterval = 1
  CleanupDelay = 1
  IdleTimeout = 1
  StateTTL = 2
  MaxVer = 1
  TimerDelays = {1}
INVARIANT DirtyWillBeSaved
CHECK_DEADLOCK FALSE
