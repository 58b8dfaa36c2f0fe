SPECIFICATION MCSpec
CONSTANTS
    c1 = c1
    c2 = c2
    s1 = s1
    s2 = s2
    s3 = s3
    i1 = i1
    i2 = i2
    a = a
    b = b
    streaming = streaming
    leased = leased
    MaxCount = 1
    MaxPolls = 1
    MaxReplays = 1
    Subscriber <- MCSubscriber
    Fingerprint <- MCFingerprint
    MaxChanges = 2
    Process <- MCProcess
    Instance <- MCInstance
    Inode <- MCInode
    MaxCrashes = 1
    MaxObservations = 2
    MaxOperations = 1
INVARIANT CompletionAfterFinalProgress
INVARIANT SignalledChangeUnderway
INVARIANT EndpointNotLost
PROPERTY ObserverHearsTheEnd
PROPERTY ExitRestoresTerminal
CHECK_DEADLOCK FALSE
