SPECIFICATION FairSpec
CONSTANTS
  q1 = q1
  q2 = q2
  q3 = q3
  home = home
  none = none
  Requests <- TwoRequests
  NoAccount = none
  Fills = {1, 2}
  ExecutedAt <- SecondsAndDay
  Kinds = {"session", "flex", "rebuild"}
  Known = {}
  MaxPolls = 2
INVARIANTS SyncedAll SnapshotCurrent
PROPERTY EveryRequestEnds
CHECK_DEADLOCK FALSE
