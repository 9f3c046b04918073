SPECIFICATION UiSpec
CONSTANTS
  s1 = s1
  s2 = s2
  s3 = s3
  Sessions = {s1, s2, s3}
  Requests = {s1, s2}
  Nobody = Nobody
  Deployments <- MCShared
  Forms <- MCForms
  MaxHistory = 1
  MaxClock = 1
INVARIANTS
  FailedRunNotStored
  LockHeldByWriter
  KnownRunIsFound
  HistoryNewestFirst
  AnswerMatchesRecord
  OnlyThatDoesNotHeal
PROPERTIES
  RequestEnds
  WarmStoreIsSafe
\* Every request may have been answered.
CHECK_DEADLOCK FALSE
