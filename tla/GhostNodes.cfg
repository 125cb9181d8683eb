SPECIFICATION MetadataSpec
CONSTANTS
  p1 = p1
  p2 = p2
  t1 = t1
  t2 = t2
  t3 = t3
  t4 = t4
  Peers = {p1, p2}
  Workers = {t1, t2, t3, t4}
  PeerOf <- PeerOfWorker
  Duties <- DutiesOfWorker
  NodeLists = {0, 1}
  NoNodesYet = 0
  Mortal = {p1}
  MaxCommits <- TwoCommits
  MaxLostWrites = 1
INVARIANT SnapshotCoherent
CHECK_DEADLOCK FALSE
