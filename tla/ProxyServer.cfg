SPECIFICATION FairSpec
CONSTANTS
  Listeners = {l1, l2}
  Conns = {c1, c2, c3}
  Nobody = nobody
  Configs <- MCConfigs
INVARIANT
  NoGhosts
PROPERTIES
  AcceptedIsAnswered
  KeepsPromise
CHECK_DEADLOCK FALSE
