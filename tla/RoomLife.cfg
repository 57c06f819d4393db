\* Two connections, two users: every interleaving of their messages with hooks, alarms and hibernation.
SPECIFICATION Spec
CONSTANTS
  c1 = c1
  c2 = c2
  u1 = u1
  u2 = u2
  None = None
  Conns = {c1, c2}
  Users = {u1, u2}
  Timers = {}
  Uses = {"kick", "revoke", "hibernate"}
  MaxPlayers = 2
  AuthTimeout = 1
  Heartbeat = 2
  ReconnectTimeout = 1
  SaveInterval = 1
  CleanupDelay = 1
  IdleTimeout = 1
  StateTTL = 2
  MaxVer = 1
  TimerDelays = {1}
SYMMETRY RoomSymmetry
INVARIANT TypeOK
INVARIANT AlarmCoversDeadlines
INVARIANT GraceOnlyWhenAbsent
INVARIANT LiveAuthedArePlayers
INVARIANT DeadlinesAreStored
INVARIANT StoredDeadlinesWake
CHECK_DEADLOCK FALSE
