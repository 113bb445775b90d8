SPECIFICATION FairSpec
CONSTANTS
    MaxSize = 3
    MaxReplies = 3
    MaxLosses = 2
INVARIANT DeliveredInOrder
PROPERTY EveryReplyDelivered
CHECK_DEADLOCK FALSE
