\* Two modules, one channel, three events, batches of two, three attempts.
SPECIFICATION FairSpec
CONSTANTS
    Events <- TwoModules
    Channels = {c1}
    MinRank = 2
    MaxBatch = 2
    Retries = 3
    MaxEvents = 3
INVARIANTS NothingLost NoDuplicateInDigest
PROPERTIES NoSendAfterClose ImplementsDelivery EventuallySettled
\* The process ends once Close has returned.
CHECK_DEADLOCK FALSE
