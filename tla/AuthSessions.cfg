\* Two requests at a time, two sessions (one of them a ticket's), one allowed.
SPECIFICATION Spec
CONSTANTS
  r1 = r1
  r2 = r2
  Reqs = {r1, r2}
  Sids = {1, 2}
  Tickets = {1}
  MaxToken = 3
  GracePeriod = 0
  RefreshTTL = 2
  MaxSessions = 1
  Times = {1, 3}
INVARIANTS RetriesConverge LateAsksAreRefused ClosedStaysClosed SessionLimit
PROPERTIES NewSessionSurvives ImplementsLineage
SYMMETRY ReqSymmetry
CHECK_DEADLOCK FALSE
