CONSTANTS
  Call = {c1, c2, c3}
  SeqMod = 2
  Foreign = {1}
SPECIFICATION FairSpec
INVARIANT OKMeansReplied
