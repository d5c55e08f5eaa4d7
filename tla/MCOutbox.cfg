SPECIFICATION FairSpec
CONSTANTS
    Monitors = {m1}
    BatchSize = 2
    MaxAttempts = 2
    MaxEvents = 3
    MaxResets = 1
    MaxFaults = 1
INVARIANTS TypeOK DeliveredWasReceived TriedInOrder ResentOnlyInDoubt
PROPERTIES QueuedIsReceived
