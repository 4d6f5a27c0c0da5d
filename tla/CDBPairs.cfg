SPECIFICATION FairSpec
INVARIANTS TypeOK WritesHidden PairsAligned NothingOutlivesEngine
PROPERTY EndingEnds
CONSTANT StartOrder <- PairSystems
CHECK_DEADLOCK FALSE
