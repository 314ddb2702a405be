SPECIFICATION FairSpec
CONSTANTS
  c1 = c1
  c2 = c2
  t1 = t1
  t2 = t2
  w1 = w1
  w2 = w2
  Conns = {c1, c2}
  Tables = {t1, t2}
  Watches = {w1, w2}
  Owner <- OneConnection
  Channel <- TwoTables
  Setups <- SqliteLive
  MaxCommits = 2
  MaxLosses = 0
PROPERTIES LiveQueriesCatchUp
