SPECIFICATION KafkaFairSpec
CONSTANTS
    Members = {m1, m2}
    MaxLog = 3
    MaxDisruptions = 3
    KafkaMaxBackoff = 3
    NoOffset = NoOffset
INVARIANTS CommittedHeadSucceeded NothingIsSkipped
PROPERTIES EveryMessageIsAttempted
CHECK_DEADLOCK FALSE
