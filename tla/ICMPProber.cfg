CONSTANTS
  Call = {c1, c2, c3}
  SeqMod = 2
  Foreign = {0}
SPECIFICATION FairSpec
INVARIANTS TypeOK LoopNeverBlocks ReplyFindsWaiter OKMeansOwnNumber
PROPERTY CallsEnd
