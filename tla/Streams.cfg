\* When all has been delivered there is nothing left to do.
SPECIFICATION FairSpec
PROPERTIES
    EventuallyDelivered
CHECK_DEADLOCK FALSE
