CONSTANT Client = {c1}
SPECIFICATION FairSpec
INVARIANTS ReportNeverBlocks CleanReturn
PROPERTIES StopsAfterSignal StreamKeepsEmitting StreamEnds
